---- MODULE Spec2Model ----
(***************************************************************************)
(* Solar ephemeris engine of ephemeris (src/src/lib/astronomy/types.ts).   *)
(*                                                                         *)
(* The engine computes in IEEE doubles.  The model computes the same       *)
(* formulas in 32-bit fixed point:                                         *)
(*   angles           microdegrees          (UD units per degree)          *)
(*   sines, cosines   units of 1e-9         (ONE is 1.0)                   *)
(*   minutes          microminutes; hours   microhours                     *)
(*   instants         [day, ms]: days since 1970-01-01 and ms of that day  *)
(*   Julian Days      [d, ms]: the value d - 1/2 + ms/DAYMS                *)
(* The engine's radians are the model's microdegrees (x * DEG_TO_RAD is a  *)
(* change of unit).  Products are evaluated exactly in limbs and reduced mod  *)
(* 360 degrees where the double would hold a large angle.  NaN and the     *)
(* Invalid Date are values no computation of the model produces.           *)
(***************************************************************************)
EXTENDS Integers, Sequences, FiniteSets, TLC

ONE == 1000 * 1000 * 1000
UD == 1000 * 1000
FULL == 360 * UD
HALF == 180 * UD
DAYMS == 24 * 60 * 60 * 1000

\* NaN: a value no computation of the model produces
NaN == -(2 ^ 30) - (2 ^ 30)
IsNaN(x) == x = NaN

Abs(x) == IF x < 0 THEN -x ELSE x
Min(a, b) == IF a < b THEN a ELSE b
Max(a, b) == IF a > b THEN a ELSE b

(***************************************************************************)
(* Products and quotients of fixed-point numbers on 32-bit integers.       *)
(* a * b is formed in limbs of base 1000, so that no partial result        *)
(* leaves the 32-bit range.  A value that is used more than once is passed *)
(* as an argument, so that it is written, and evaluated, once.             *)
(***************************************************************************)
Limbs(a) == << a % 1000, (a \div 1000) % 1000, (a \div UD) % 1000, a \div ONE >>

\* the limbs t[k + 1], k = 0..6, of the product of the numbers of limbs A
\* and B: sums of A[i] * B[j] with the carry of the limb below
CarryL(A, B) ==
  LET t0 == A[1] * B[1]
      t1 == A[1] * B[2] + A[2] * B[1] + t0 \div 1000
      t2 == A[1] * B[3] + A[2] * B[2] + A[3] * B[1] + t1 \div 1000
      t3 == A[1] * B[4] + A[2] * B[3] + A[3] * B[2] + A[4] * B[1] + t2 \div 1000
      t4 == A[2] * B[4] + A[3] * B[3] + A[4] * B[2] + t3 \div 1000
      t5 == A[3] * B[4] + A[4] * B[3] + t4 \div 1000
      t6 == A[4] * B[4] + t5 \div 1000
  IN  << t0, t1, t2, t3, t4, t5, t6 >>

Carry(a, b) == CarryL(Limbs(a), Limbs(b))

\* floor(a * b / 1000^k) from the limbs t of a * b, k in 1..3
Shift(t, k) ==
  LET u5 == (t[6] % 1000) + 1000 * t[7]
      u4 == (t[5] % 1000) + 1000 * u5
      u3 == (t[4] % 1000) + 1000 * u4
      u2 == (t[3] % 1000) + 1000 * u3
  IN  CASE k = 3 -> u3
        [] k = 2 -> u2
        [] OTHER -> (t[2] % 1000) + 1000 * u2

\* floor(a * b / 1000^k) for a, b >= 0 and k in 1..3; the result fits
MulShift(a, b, k) == Shift(Carry(a, b), k)

\* floor(a * b / 1000^k) mod 360 degrees from the limbs t of a * b
ShiftMod(t, k) ==
  LET v6 == t[7] % 360
      v5 == ((t[6] % 1000) + 1000 * v6) % 360
      v4 == ((t[5] % 1000) + 1000 * v5) % 360
      v3 == ((t[4] % 1000) + 1000 * v4) % 360
      top == CASE k = 3 -> v5 [] k = 2 -> v4 [] OTHER -> v3
  IN  ((t[k + 1] % 1000) + 1000 * (t[k + 2] % 1000) + UD * top) % FULL

\* floor(a * b / 1000^k) mod 360 degrees, for a, b >= 0 and k in 1..3
MulShiftMod(a, b, k) == ShiftMod(Carry(a, b), k)

\* a * b / 1000^k rounded toward zero, any signs
SMulShift(a, b, k) ==
  (IF (a < 0) = (b < 0) THEN 1 ELSE -1) * MulShift(Abs(a), Abs(b), k)

\* the product of two numbers of scale ONE, or of a number and a sine
FMul(a, b) == SMulShift(a, b, 3)

\* the next decimal digit of r / b, 0 <= r < b
Digit(r, b) ==
  Cardinality({j \in 1..9 : r >= j * (b \div 10) + (j * (b % 10) + 9) \div 10})

\* the remainder 10 r - d b left by the digit d
Rest(r, b, d) == (r - d * (b \div 10)) * 10 - d * (b % 10)

\* the n digits of r / b after those of acc
RECURSIVE Digits(_, _, _, _)
DigitsFrom(r, b, n, acc, d) == Digits(Rest(r, b, d), b, n - 1, acc * 10 + d)
Digits(r, b, n, acc) ==
  IF n = 0 THEN acc ELSE DigitsFrom(r, b, n, acc, Digit(r, b))

\* floor(a * ONE / b) for a >= 0, b > 0: the quotient a / b at scale ONE
DivOne(a, b) == (a \div b) * ONE + Digits(a % b, b, 9, 0)

SDivOne(a, b) ==
  (IF (a < 0) = (b < 0) THEN 1 ELSE -1) * DivOne(Abs(a), Abs(b))

(***************************************************************************)
(* Math.sin, Math.cos, Math.atan2, Math.sqrt, Math.asin, Math.acos         *)
(***************************************************************************)

\* sin of 0..90 whole degrees and tan of 0..45 whole degrees, at scale ONE
SINT ==
  << 0, 17452406, 34899497, 52335956, 69756474, 87155743, 104528463,
     121869343, 139173101, 156434465, 173648178, 190808995, 207911691,
     224951054, 241921896, 258819045, 275637356, 292371705, 309016994,
     325568154, 342020143, 358367950, 374606593, 390731128, 406736643,
     422618262, 438371147, 453990500, 469471563, 484809620, 500000000,
     515038075, 529919264, 544639035, 559192903, 573576436, 587785252,
     601815023, 615661475, 629320391, 642787610, 656059029, 669130606,
     681998360, 694658370, 707106781, 719339800, 731353702, 743144825,
     754709580, 766044443, 777145961, 788010754, 798635510, 809016994,
     819152044, 829037573, 838670568, 848048096, 857167301, 866025404,
     874619707, 882947593, 891006524, 898794046, 906307787, 913545458,
     920504853, 927183855, 933580426, 939692621, 945518576, 951056516,
     956304756, 961261696, 965925826, 970295726, 974370065, 978147601,
     981627183, 984807753, 987688341, 990268069, 992546152, 994521895,
     996194698, 997564050, 998629535, 999390827, 999847695, 1000000000 >>

TANT ==
  << 0, 17455065, 34920769, 52407779, 69926812, 87488664, 105104235,
     122784561, 140540835, 158384440, 176326981, 194380309, 212556562,
     230868191, 249328003, 267949192, 286745386, 305730681, 324919696,
     344327613, 363970234, 383864035, 404026226, 424474816, 445228685,
     466307658, 487732589, 509525449, 531709432, 554309051, 577350269,
     600860619, 624869352, 649407593, 674508517, 700207538, 726542528,
     753554050, 781285627, 809784033, 839099631, 869286738, 900404044,
     932515086, 965688775, 1000000000 >>

\* <<cos, sin>> of d degrees and dr radians, s2 = dr * dr, p = s2 * |dr|:
\* the sine and cosine of d from the table, the series for those of dr
Rotate(d, dr, s2, p) ==
  LET sd == IF dr >= 0 THEN dr - p \div 6 ELSE dr + p \div 6
      cd == ONE - s2 \div 2
  IN  << FMul(SINT[91 - d], cd) - FMul(SINT[d + 1], sd),
         FMul(SINT[d + 1], cd) + FMul(SINT[91 - d], sd) >>

Series(d, dr, s2) == Rotate(d, dr, s2, FMul(s2, Abs(dr)))

Square(d, dr) == Series(d, dr, FMul(dr, dr))

\* <<cos r, sin r>> for 0 < r < 90 degrees: the nearest whole degree d and
\* the rest, dr radians
Quadrant(r) ==
  Square((r + 500000) \div UD,
         SMulShift(r - ((r + 500000) \div UD) * UD, 17453293, 2))

\* <<cos, sin>> of the quarter turn q past v = <<cos, sin>>, held in [0, 1]
Turn(q, v) ==
  CASE q = 0 -> << Min(ONE, Max(0, v[1])), Min(ONE, Max(0, v[2])) >>
    [] q = 1 -> << -Min(ONE, Max(0, v[2])), Min(ONE, Max(0, v[1])) >>
    [] q = 2 -> << -Min(ONE, Max(0, v[1])), -Min(ONE, Max(0, v[2])) >>
    [] OTHER -> << Min(ONE, Max(0, v[2])), -Min(ONE, Max(0, v[1])) >>

\* <<cos a, sin a>> of an angle in microdegrees
CosSin(a) ==
  Turn((a % FULL) \div (90 * UD),
       IF a % (90 * UD) = 0 THEN <<ONE, 0>> ELSE Quadrant(a % (90 * UD)))

Cos(a) == CosSin(a)[1]
Sin(a) == CosSin(a)[2]

\* d degrees and the series of atan for u = tan(atan t - d)
AtanSeries(d, u) ==
  d * UD + MulShift(u - FMul(FMul(u, u), u) \div 3, 57295780, 3)

AtanFrom(t, d) ==
  AtanSeries(d, DivOne(t - TANT[d + 1], ONE + FMul(t, TANT[d + 1])))

\* atan(t) in microdegrees for 0 <= t <= ONE: the whole degrees from the table
Atan(t) == AtanFrom(t, Cardinality({k \in 1..45 : TANT[k + 1] <= t}))

\* the angle of (x, y) from a = atan(min / max) of |x| and |y|
Octant(y, x, a) ==
  (IF y >= 0 THEN 1 ELSE -1)
    * (IF x < 0 THEN HALF - (IF Abs(y) <= Abs(x) THEN a ELSE 90 * UD - a)
       ELSE (IF Abs(y) <= Abs(x) THEN a ELSE 90 * UD - a))

\* Math.atan2(y, x) in microdegrees, in (-180, 180] degrees; atan2(0, 0) = 0
Atan2(y, x) ==
  IF x = 0 /\ y = 0 THEN 0
  ELSE Octant(y, x, Atan(DivOne(Min(Abs(x), Abs(y)), Max(Abs(x), Abs(y)))))

\* a first guess not below sqrt(w * ONE)
Guess(w) ==
  CASE w < 10 -> 100000
    [] w < 100 -> 316228
    [] w < 1000 -> 1000000
    [] w < 10000 -> 3162278
    [] w < 100000 -> 10000000
    [] w < 1000000 -> 31622777
    [] w < 10000000 -> 100000000
    [] w < 100000000 -> 316227767
    [] OTHER -> ONE

\* one step of Newton's iteration for sqrt(w * ONE)
Newton(w, s) == (s + DivOne(w, s)) \div 2

\* Math.sqrt(w) at scale ONE, for 0 <= w <= ONE
Sqrt(w) ==
  IF w = 0 THEN 0
  ELSE Newton(w, Newton(w, Newton(w, Newton(w, Newton(w, Guess(w))))))

\* Math.asin(y) and Math.acos(y) in microdegrees; NaN outside [-1, 1]
Asin(y) == IF Abs(y) > ONE THEN NaN ELSE Atan2(y, Sqrt(ONE - FMul(y, y)))
Acos(y) == IF Abs(y) > ONE THEN NaN ELSE Atan2(Sqrt(ONE - FMul(y, y)), y)

(***************************************************************************)
(* Dates.  A Date holds a time value of at most 8.64e15 ms in magnitude,   *)
(* that is 1e8 days either side of the epoch, or NaN (Invalid Date).       *)
(***************************************************************************)
MaxDay == 100 * UD

InvalidDate == [invalid |-> TRUE]
Null == [null |-> TRUE]
Valid(date) == DOMAIN date = {"day", "ms"}

\* TimeClip of the time value day * DAYMS + ms, ms of any sign and size
NewDate(day, ms) ==
  LET d == day + ms \div DAYMS
      m == ms % DAYMS
  IN  IF d < -MaxDay \/ d > MaxDay \/ (d = MaxDay /\ m > 0) THEN InvalidDate
      ELSE [day |-> d, ms |-> m]

\* getUTCFullYear, getUTCMonth + 1, getUTCDate of the epoch day z
civil(z) ==
  LET z1 == z + 719468
      era == z1 \div 146097
      doe == z1 % 146097
      yoe == (doe - doe \div 1460 + doe \div 36524 - doe \div 146096) \div 365
      doy == doe - (365 * yoe + yoe \div 4 - yoe \div 100)
      mp == (5 * doy + 2) \div 153
      d == doy - (153 * mp + 2) \div 5 + 1
      m == IF mp < 10 THEN mp + 3 ELSE mp - 9
  IN  << yoe + era * 400 + (IF m <= 2 THEN 1 ELSE 0), m, d >>

\* the epoch day of Date.UTC(y, m - 1, d), m in 1..12
DateUTC(y, m, d) ==
  LET y1 == IF m <= 2 THEN y - 1 ELSE y
      era == y1 \div 400
      yoe == y1 % 400
      doy == (153 * (IF m > 2 THEN m - 3 ELSE m + 9) + 2) \div 5 + d - 1
      doe == yoe * 365 + yoe \div 4 - yoe \div 100 + doy
  IN  era * 146097 + doe - 719468

(***************************************************************************)
(* The ephemeris                                                           *)
(***************************************************************************)
J2000 == 2451545

\* 400 years in place of 200
SPAN_doubled == 2 * 73050

\* 200 * 365.25 days: MIN_JD and MAX_JD are J2000 -+ SPAN
SPAN == 73050

\* ((deg % 360) + 360) % 360 with the remainder of JavaScript
jsrem(a, m) == IF a >= 0 THEN a % m ELSE -((-a) % m)

\* deg % 360 alone, which keeps the sign of deg
normalizeDeg_remainderOnly(deg) == jsrem(deg, FULL)

normalizeDeg(deg) == jsrem(jsrem(deg, FULL) + FULL, FULL)

\* the formula without the step back to the year before for January and
\* February
julianOf_noStepBack(c, ms) ==
  LET B == 2 - c[1] \div 100 + (c[1] \div 100) \div 4
  IN  [d |-> (1461 * (c[1] + 4716)) \div 4 + (306001 * (c[2] + 1)) \div 10000
               + c[3] + B - 1524,
       ms |-> ms]

\* the formula of the Julian calendar: without B, the correction for the
\* century years that are no leap years
julianOf_julianCalendar(c, ms) ==
  LET Y == IF c[2] <= 2 THEN c[1] - 1 ELSE c[1]
      M == IF c[2] <= 2 THEN c[2] + 12 ELSE c[2]
  IN  [d |-> (1461 * (Y + 4716)) \div 4 + (306001 * (M + 1)) \div 10000
               + c[3] - 1524,
       ms |-> ms]

\* the Julian Day of the civil date c = <<y, m, d>> and ms of the day
julianOf(c, ms) ==
  LET Y == IF c[2] <= 2 THEN c[1] - 1 ELSE c[1]
      M == IF c[2] <= 2 THEN c[2] + 12 ELSE c[2]
      B == 2 - Y \div 100 + (Y \div 100) \div 4
  IN  [d |-> (1461 * (Y + 4716)) \div 4 + (306001 * (M + 1)) \div 10000
               + c[3] + B - 1524,
       ms |-> ms]

\* the Julian Day of a valid Date, as [d, ms]: d - 1/2 + ms / DAYMS
julianDay(date) == julianOf(civil(date.day), date.ms)

\* jd - J2000 as <<n, f>>: n whole days and f ms
sinceJ2000(jd) ==
  << jd.d - J2000 - (IF 2 * jd.ms >= DAYMS THEN 0 ELSE 1),
     (jd.ms + DAYMS \div 2) % DAYMS >>

\* Math.max(MIN_JD, Math.min(MAX_JD, jd)) - J2000
clampedJd(D) ==
  IF D[1] >= SPAN THEN <<SPAN, 0>>
  ELSE IF D[1] < -SPAN THEN <<-SPAN, 0>>
  ELSE D

\* f ms as a fraction of the day, at scale ONE
DayFraction(f) == (f \div 54) * 625 + ((f % 54) * 625) \div 54

\* T = D / 36525.0 as [c, f, e]: c + f / ONE + e / (36525 * ONE) centuries,
\* 0 <= f < ONE
centuries(D) ==
  LET r == D[1] % 36525
      g == DayFraction(D[2])
      q1 == (r * 1000) \div 36525
      r1 == (r * 1000) % 36525
      q2 == (r1 * 1000) \div 36525
      r2 == (r1 * 1000) % 36525
      q3 == (r2 * 1000) \div 36525
      r3 == (r2 * 1000) % 36525
  IN  [c |-> D[1] \div 36525,
       f |-> q1 * UD + q2 * 1000 + q3 + (r3 + g) \div 36525,
       e |-> (r3 + g) % 36525]

\* T in thousandths of a century, rounded
milli(T) == T.c * 1000 + (T.f + 500000) \div UD

\* (kW + kMicro / UD) * T degrees, mod 360, in microdegrees
Lin(kW, kMicro, T) ==
  ( (((((kW % 360) * T.c) % 360) * UD + kMicro * T.c) % FULL)
    + MulShiftMod(kW, T.f, 1) + MulShift(kMicro, T.f, 3)
    + (kW * T.e) \div 36525000 ) % FULL

\* k * T for a coefficient of k microdegrees
Small(k, T) == k * T.c + MulShift(k, T.f, 3)

\* kNano * T * T and kPico * T * T * T, mod 360, in microdegrees
Quad(kNano, Tm) == MulShiftMod(MulShift(kNano, Abs(Tm), 1), Abs(Tm), 2)
Cubic(kPico, Tm) ==
  (IF Tm >= 0 THEN 1 ELSE -1)
    * MulShiftMod(MulShift(MulShift(kPico, Abs(Tm), 1), Abs(Tm), 2), Abs(Tm), 2)

\* normalizeDeg(280.46646 + 36000.76983 * T + 0.0003032 * T * T)
meanLongitude(T) ==
  normalizeDeg(280466460 + Lin(36000, 769830, T) + Quad(303200, milli(T)))

\* M_deg
meanAnomaly(T) ==
  normalizeDeg(357529110 + Lin(35999, 50290, T) - Quad(153700, milli(T)))

\* C, from the mean anomaly M
equationOfCenter(T, M) ==
  FMul(1914602 - Small(4817, T) - Quad(14000, milli(T)), Sin(M))
  + FMul(19993 - Small(101, T), Sin(2 * M))
  + FMul(289, Sin(3 * M))

\* eps0
meanObliquity(T) ==
  23439291 - Small(13004, T) - Quad(164, milli(T)) + Cubic(504000, milli(T))

\* the declination and the right ascension from <<cos, sin>> of eps and lambda
equatorial(cse, csl, lambda, eps) ==
  [declination |-> Asin(FMul(cse[2], csl[2])),
   rightAscension |-> Atan2(FMul(cse[1], csl[2]), csl[1]),
   apparentLongitude |-> lambda,
   obliquity |-> eps]

ecliptic(eps, lambda) == equatorial(CosSin(eps), CosSin(lambda), lambda, eps)

\* eps and lambda from the true longitude theta and <<cos, sin>> of omega
nutation(T, theta, cso) ==
  ecliptic(meanObliquity(T) + FMul(2560, cso[1]),
           theta - 5690 - FMul(4780, cso[2]))

\* the body of solarPosition from T on
solarAt(T) ==
  nutation(T, meanLongitude(T) + equationOfCenter(T, meanAnomaly(T)),
           CosSin(normalizeDeg(125040000 - Lin(1934, 136000, T))))

NaNPosition ==
  [declination |-> NaN, rightAscension |-> NaN, apparentLongitude |-> NaN,
   obliquity |-> NaN]

\* the T of solarPosition: the Julian Day clamped to J2000 -+ SPAN
solarT(date) == centuries(clampedJd(sinceJ2000(julianDay(date))))

solarPosition(date) ==
  IF ~Valid(date) THEN NaNPosition ELSE solarAt(solarT(date))

\* 360.98564736629 * n for n whole days, less whole turns: negative for n < 0
wholeDays(n) ==
  LET Signed(p) == IF n >= 0 THEN p ELSE -p
  IN  Signed(( MulShiftMod(985647366, Abs(n), 1) + (Abs(n) \div 100000) * 29
               + ((Abs(n) % 100000) * 29) \div 100000 ) % FULL)

\* gmst for jd - J2000 = D
siderealAt(D) ==
  normalizeDeg(280460618 + wholeDays(D[1])
               + MulShift(DayFraction(D[2]), 360985647, 3)
               + Quad(387933, milli(centuries(D)))
               - Cubic(25833, milli(centuries(D))))

greenwichMeanSiderealTime(jd) == siderealAt(sinceJ2000(jd))

\* a / b at scale ONE, b # 0; quotients beyond +-2 are held at +-2
Quot(a, b) ==
  IF Abs(a) >= 2 * Abs(b)
  THEN (IF (a < 0) = (b < 0) THEN 2 * ONE ELSE -2 * ONE)
  ELSE SDivOne(a, b)

\* v / l
scale(v, l) ==
  IF l = 0 THEN <<0, 0, 0>> ELSE << Quot(v[1], l), Quot(v[2], l), Quot(v[3], l) >>

\* new Vector3(x, y, z).normalize()
normalize(v) ==
  scale(v, Sqrt(Min(ONE, FMul(v[1], v[1]) + FMul(v[2], v[2]) + FMul(v[3], v[3]))))

sunDirectionVector(date) ==
  LET Vector(csd, csh) ==
        normalize(<< FMul(csd[1], csh[1]), csd[2], FMul(csd[1], csh[2]) >>)
      Direction(pos, gmst) ==
        Vector(CosSin(pos.declination), CosSin(gmst - pos.rightAscension))
  IN  Direction(solarPosition(date), greenwichMeanSiderealTime(julianDay(date)))

\* the fields formatDateUTC prints: year, month, day, hours, minutes, seconds
formatDateUTC(date) ==
  LET Fields(c) ==
        << c[1], c[2], c[3], date.ms \div 3600000, (date.ms \div 60000) % 60,
           (date.ms \div 1000) % 60 >>
  IN  Fields(civil(date.day))

angleDiff(a, b) ==
  LET Signed(d) == IF d > HALF THEN d - FULL ELSE d
  IN  Signed(jsrem(jsrem(a - b, FULL) + FULL, FULL))

\* At a pole cos(lat) is 6e-17 in the double and the numerator of cosAz is
\* what is left of sinElev's rounding: noise, one of -ONE, 0, ONE, stands
\* for the quotient there.
sunElevationAzimuth(date, latDeg, lonDeg, noise) ==
  LET Wrap(az) == IF az < 0 THEN az + FULL ELSE az
      CosAz(num, den) == IF den = 0 THEN noise ELSE Quot(num, den)
      Azimuth(csl, csd, csh, sinElev, cosElev) ==
        IF cosElev < 1 THEN 0
        ELSE Wrap(Atan2(Quot(-FMul(csd[1], csh[2]), cosElev),
                        CosAz(csd[2] - FMul(csl[2], sinElev), FMul(csl[1], cosElev))))
      Horizontal(csl, csd, csh, sinElev, elevation) ==
        [elevation |-> elevation,
         azimuth |-> Azimuth(csl, csd, csh, sinElev, Cos(elevation))]
      Elevation(csl, csd, csh, sinElev) ==
        Horizontal(csl, csd, csh, sinElev, Asin(Max(-ONE, Min(ONE, sinElev))))
      SinElev(csl, csd, csh) ==
        Elevation(csl, csd, csh,
                  FMul(csl[2], csd[2]) + FMul(FMul(csl[1], csd[1]), csh[1]))
      HourAngle(pos, gmst) ==
        SinElev(CosSin(latDeg), CosSin(pos.declination),
                CosSin(gmst + lonDeg - pos.rightAscension))
  IN  HourAngle(solarPosition(date), greenwichMeanSiderealTime(julianDay(date)))

\* minutes, in microminutes
equationOfTime(date) ==
  LET Adj(ra) == IF ra < 0 THEN ra + FULL ELSE ra
      Wrap(eot) == IF eot > HALF THEN eot - FULL
                   ELSE IF eot < -HALF THEN eot + FULL ELSE eot
  IN  4 * Wrap(meanLongitude(centuries(sinceJ2000(julianDay(date))))
               - Adj(solarPosition(date).rightAscension))

\* floor((a + b) * 60000) ms for a + b microminutes
MinToMs(a, b) ==
  3 * (a \div 50 + b \div 50) + (3 * ((a % 50) + (b % 50))) \div 50

\* new Date(baseDate + minutes * 60000): the time value is truncated
\* toward zero
DateAtMinutes(base, a, b) ==
  IF base + MinToMs(a, b) \div DAYMS >= 0 THEN NewDate(base, MinToMs(a, b))
  ELSE NewDate(base, -MinToMs(-a, -b))

\* Math.sin(-0.833 * DEG_TO_RAD)
sinCorr == Sin(-833000)

\* Date.UTC(year, month, date) of the date's UTC day, as an epoch day
baseDateOf(date) ==
  LET Utc(c) == DateUTC(c[1], c[2], c[3]) IN Utc(civil(date.day))

\* the instant itself in place of the noon of its day
noonOf_sameInstant(date) == date

\* new Date(Date.UTC(year, month, date, 12, 0, 0)) of the date's UTC day
noonOf(date) == NewDate(baseDateOf(date), DAYMS \div 2)

\* Math.abs(denominator) < 1e-10: less than one unit of the model
atPole(denominator) == Abs(denominator) < 1

\* the test for polar night left out
noCrossing_lowerOnly(cosHA) == cosHA < -ONE

\* cosHA < -1 or cosHA > 1: the sun does not cross the horizon
noCrossing(cosHA) == cosHA < -ONE \/ cosHA > ONE

\* what sunriseSunset computes before it branches, for a date whose noon
\* is a valid Date; cosHA is not computed at a pole
crossing(date, latDeg, lonDeg) ==
  LET Ratio(declination, eotMinutes, denominator, sinElev) ==
        [declination |-> declination,
         solarNoonMinutes |-> 720 * UD - lonDeg * 4 - eotMinutes,
         denominator |-> denominator,
         sinElev |-> sinElev,
         cosHA |-> IF atPole(denominator) THEN NaN
                   ELSE Quot(sinCorr - sinElev, denominator)]
      Products(declination, eotMinutes, csl, csd) ==
        Ratio(declination, eotMinutes, FMul(csl[1], csd[1]), FMul(csl[2], csd[2]))
      Angles(declination, eotMinutes) ==
        Products(declination, eotMinutes, CosSin(latDeg), CosSin(declination))
      At(noon) == Angles(solarPosition(noon).declination, equationOfTime(noon))
  IN  At(noonOf(date))

\* solarNoonDate after setUTCMinutes(Math.round(solarNoonMinutes))
solarNoonDate(date, solarNoonMinutes) ==
  NewDate(baseDateOf(date), ((solarNoonMinutes + 500000) \div UD) * 60000)

\* the pole's comparison the wrong way round
poleResult_flipped(sinElev, noonDate) ==
  [sunrise |-> Null, sunset |-> Null, solarNoon |-> noonDate,
   dayLength |-> IF sinElev > sinCorr THEN 0 ELSE 24 * UD]

\* the result at a pole
poleResult(sinElev, noonDate) ==
  [sunrise |-> Null, sunset |-> Null, solarNoon |-> noonDate,
   dayLength |-> IF sinElev > sinCorr THEN 24 * UD ELSE 0]

\* polar day and polar night exchanged
polarResult_swapped(cosHA, noonDate) ==
  [sunrise |-> Null, sunset |-> Null, solarNoon |-> noonDate,
   dayLength |-> IF cosHA < -ONE THEN 0 ELSE 24 * UD]

\* the result of a polar day or a polar night
polarResult(cosHA, noonDate) ==
  [sunrise |-> Null, sunset |-> Null, solarNoon |-> noonDate,
   dayLength |-> IF cosHA < -ONE THEN 24 * UD ELSE 0]

\* the half day in place of the day
dayLengthHours_half(haMinutes) == haMinutes \div 60

\* (2 * haMinutes) / 60, in microhours
dayLengthHours(haMinutes) == (2 * haMinutes) \div 60

\* new Date(baseDate + minutes * 60000) for solarNoonMinutes + ha minutes
eventDate(date, solarNoonMinutes, ha) ==
  IF IsNaN(ha) THEN InvalidDate
  ELSE DateAtMinutes(baseDateOf(date), solarNoonMinutes, ha)

\* the result when the sun crosses the horizon, haMinutes from solar noon
crossingResult(date, solarNoonMinutes, noonDate, haMinutes) ==
  [sunrise |-> eventDate(date, solarNoonMinutes,
                         IF IsNaN(haMinutes) THEN NaN ELSE -haMinutes),
   sunset |-> eventDate(date, solarNoonMinutes, haMinutes),
   solarNoon |-> noonDate,
   dayLength |-> IF IsNaN(haMinutes) THEN NaN ELSE dayLengthHours(haMinutes)]

sunriseSunset(date, latDeg, lonDeg) ==
  LET HaMinutes(acosHA) == IF IsNaN(acosHA) THEN NaN ELSE 4 * acosHA
      Branch(g, noonDate) ==
        IF atPole(g.denominator) THEN poleResult(g.sinElev, noonDate)
        ELSE IF noCrossing(g.cosHA) THEN polarResult(g.cosHA, noonDate)
        ELSE crossingResult(date, g.solarNoonMinutes, noonDate,
                            HaMinutes(Acos(g.cosHA)))
      From(g) == Branch(g, solarNoonDate(date, g.solarNoonMinutes))
  IN  IF ~Valid(noonOf(date))
      THEN \* every number derived from noon is NaN and no comparison holds
           [sunrise |-> InvalidDate, sunset |-> InvalidDate,
            solarNoon |-> InvalidDate, dayLength |-> NaN]
      ELSE From(crossing(date, latDeg, lonDeg))

\* the elevation looked at before the length of the day
status_elevationFirst(elevation, azimuth, dayLength) ==
  IF elevation > 0
  THEN (IF azimuth < HALF THEN "Day (morning)" ELSE "Day (afternoon)")
  ELSE IF ~IsNaN(dayLength) /\ dayLength >= 24 * UD THEN "Polar day (24h sun)"
  ELSE IF elevation <= -18 * UD THEN "Night"
  ELSE IF ~IsNaN(dayLength) /\ dayLength <= 0 THEN "Polar night (no sun)"
  ELSE IF elevation > -6 * UD THEN "Civil twilight"
  ELSE IF elevation > -12 * UD THEN "Nautical twilight"
  ELSE "Astronomical twilight"

\* the status of computeSunData
status(elevation, azimuth, dayLength) ==
  IF ~IsNaN(dayLength) /\ dayLength >= 24 * UD THEN "Polar day (24h sun)"
  ELSE IF ~IsNaN(dayLength) /\ dayLength <= 0 THEN "Polar night (no sun)"
  ELSE IF elevation > 0
       THEN (IF azimuth < HALF THEN "Day (morning)" ELSE "Day (afternoon)")
  ELSE IF elevation > -6 * UD THEN "Civil twilight"
  ELSE IF elevation > -12 * UD THEN "Nautical twilight"
  ELSE IF elevation > -18 * UD THEN "Astronomical twilight"
  ELSE "Night"

computeSunData(date, latDeg, lonDeg, noise) ==
  LET Data(ea, ss) ==
        [elevation |-> ea.elevation, azimuth |-> ea.azimuth,
         sunrise |-> ss.sunrise, sunset |-> ss.sunset,
         dayLength |-> ss.dayLength, solarNoon |-> ss.solarNoon,
         status |-> status(ea.elevation, ea.azimuth, ss.dayLength)]
  IN  Data(sunElevationAzimuth(date, latDeg, lonDeg, noise),
           sunriseSunset(date, latDeg, lonDeg))

(***************************************************************************)
(* The time store.  st is the store's state: the values of currentTime,    *)
(* playbackMode, playbackSpeed, snapInterval and isPlaying, the module's   *)
(* snapTimerId, currentMode and currentPlaying, and timers, the intervals  *)
(* the runtime will fire.  clock is what Date.now() reads during the call. *)
(* A writable store runs its subscribers when set changes its value.       *)
(***************************************************************************)
SMOOTH_SPEEDS == {-5000, -1000, -500, -250, -1, 1, 250, 500, 1000, 5000}
SNAP_INTERVALS == {-7, -4, -2, -1, 1, 2, 4, 7}
BOUND_YEARS == 200

\* a < b for Dates
Before(a, b) == a.day < b.day \/ (a.day = b.day /\ a.ms < b.ms)

\* now -+ BOUND_YEARS * msPerYear, a year of 365.25 days
timeBounds(clock) ==
  [min |-> [day |-> clock.day - (BOUND_YEARS * 1461) \div 4, ms |-> clock.ms],
   max |-> [day |-> clock.day + (BOUND_YEARS * 1461) \div 4, ms |-> clock.ms]]

\* Math.max(min, Math.min(max, ms))
clampBetween(t, bounds) ==
  IF Before(bounds.max, t) THEN bounds.max
  ELSE IF Before(t, bounds.min) THEN bounds.min
  ELSE t

clampTime(t, clock) == clampBetween(t, timeBounds(clock))

NoTimer == 0

\* the id setInterval returns: one no live interval has
newTimer(timers) ==
  CHOOSE id \in 1..(Cardinality(timers) + 1) : id \notin timers

stopSnapTimer(st) ==
  IF st.snapTimerId # NoTimer
  THEN [st EXCEPT !.timers = @ \ {st.snapTimerId}, !.snapTimerId = NoTimer]
  ELSE st

\* setInterval after stopSnapTimer has run
setSnapTimer(st, id) ==
  [st EXCEPT !.snapTimerId = id, !.timers = @ \cup {id}]

startSnapTimer(st) ==
  setSnapTimer(stopSnapTimer(st), newTimer(stopSnapTimer(st).timers))

\* playbackMode.subscribe
onPlaybackMode(st, mode) ==
  IF mode = "snap" /\ st.currentPlaying
  THEN startSnapTimer([st EXCEPT !.currentMode = mode])
  ELSE stopSnapTimer([st EXCEPT !.currentMode = mode])

\* the subscriber that leaves the timer running when playback pauses
onIsPlaying_startOnly(st, playing) ==
  IF st.currentMode = "snap" /\ playing
  THEN startSnapTimer([st EXCEPT !.currentPlaying = playing])
  ELSE [st EXCEPT !.currentPlaying = playing]

\* isPlaying.subscribe
onIsPlaying(st, playing) ==
  IF st.currentMode = "snap" /\ playing
  THEN startSnapTimer([st EXCEPT !.currentPlaying = playing])
  ELSE IF st.currentMode = "snap" /\ ~playing
  THEN stopSnapTimer([st EXCEPT !.currentPlaying = playing])
  ELSE [st EXCEPT !.currentPlaying = playing]

\* playbackMode.set
setPlaybackMode(st, mode) ==
  IF st.playbackMode = mode THEN st
  ELSE onPlaybackMode([st EXCEPT !.playbackMode = mode], mode)

\* isPlaying.set
setIsPlaying(st, playing) ==
  IF st.isPlaying = playing THEN st
  ELSE onIsPlaying([st EXCEPT !.isPlaying = playing], playing)

\* playbackSpeed.set, snapInterval.set and currentTime.set: their subscribers
\* (the derived stores, the components) keep no state of the store
setPlaybackSpeed(st, speed) == [st EXCEPT !.playbackSpeed = speed]
setSnapInterval(st, days) == [st EXCEPT !.snapInterval = days]
setCurrentTime(st, date) == [st EXCEPT !.currentTime = date]

\* new Date(x) for x = u + frac / 1000 ms, 0 <= frac < 1000: the time value
\* is x without its fraction, the next ms up when x is negative
truncated(u, frac) ==
  IF u.day < 0 /\ frac > 0 THEN NewDate(u.day, u.ms + 1) ELSE u

\* the update of currentTime in smooth mode: unclamped = u + frac / 1000
smoothUpdate(st, u, frac, bounds) ==
  IF Before(u, bounds.min) \/ (u = bounds.min /\ frac = 0) \/ ~Before(u, bounds.max)
  THEN setCurrentTime(setIsPlaying(st, FALSE),
                      IF ~Before(u, bounds.max) THEN bounds.max ELSE bounds.min)
  ELSE setCurrentTime(st, truncated(u, frac))

\* deltaMs = deltaSec * speed * 1000 in thousandths of a ms (deltaUs), added
\* to t.getTime()
smoothTick(st, deltaUs, clock) ==
  smoothUpdate(st, NewDate(st.currentTime.day, st.currentTime.ms + deltaUs \div 1000),
               deltaUs % 1000, timeBounds(clock))

\* tick that steps in snap mode as it does in smooth mode
tick_anyMode(st, deltaSec, clock) ==
  IF st.playbackMode = "realtime" THEN setCurrentTime(st, clock)
  ELSE IF ~st.isPlaying THEN st
  ELSE smoothTick(st, deltaSec * st.playbackSpeed, clock)

\* tick with the check of isPlaying ahead of the check of the mode
tick_pausedFirst(st, deltaSec, clock) ==
  IF ~st.isPlaying THEN st
  ELSE IF st.playbackMode = "realtime" THEN setCurrentTime(st, clock)
  ELSE IF st.playbackMode = "smooth"
  THEN smoothTick(st, deltaSec * st.playbackSpeed, clock)
  ELSE st

\* tick(deltaSec), deltaSec in millionths of a second
tick(st, deltaSec, clock) ==
  IF st.playbackMode = "realtime" THEN setCurrentTime(st, clock)
  ELSE IF ~st.isPlaying THEN st
  ELSE IF st.playbackMode = "smooth"
  THEN smoothTick(st, deltaSec * st.playbackSpeed, clock)
  ELSE st

\* the update of currentTime in snap mode: sum = t.getTime() + deltaMs
snapUpdate(st, sum, next) ==
  setCurrentTime(IF next # sum THEN setIsPlaying(st, FALSE) ELSE st, next)

\* the callback startSnapTimer hands to setInterval
snapCallback(st, clock) ==
  IF ~st.isPlaying THEN st
  ELSE snapUpdate(st,
                  NewDate(st.currentTime.day + st.snapInterval, st.currentTime.ms),
                  clampTime(NewDate(st.currentTime.day + st.snapInterval,
                                    st.currentTime.ms), clock))

\* setTime that leaves the playback mode as it is
setTime_keepsMode(st, date, clock) ==
  setIsPlaying(setPlaybackSpeed(setCurrentTime(st, clampTime(date, clock)), 1), FALSE)

\* setTime(date) for a valid Date
setTime(st, date, clock) ==
  setIsPlaying(
    setPlaybackSpeed(
      setPlaybackMode(setCurrentTime(st, clampTime(date, clock)), "smooth"), 1),
    FALSE)

resetToRealtime(st, clock) ==
  setCurrentTime(setIsPlaying(setPlaybackMode(st, "realtime"), TRUE), clock)

syncToSystemClock(st, clock) == setCurrentTime(st, clock)

\* deltaSec of advanceTime for frames gap millionths of a second apart
frameDelta(gap) == Min(gap, 100000)

\* the module on load at clock: the stores, then the two subscriptions, each
\* running its callback once
loadTimeStore(clock) ==
  onIsPlaying(
    onPlaybackMode([currentTime |-> clock, playbackMode |-> "realtime",
                    playbackSpeed |-> 1, snapInterval |-> 1, isPlaying |-> TRUE,
                    snapTimerId |-> NoTimer, timers |-> {},
                    currentMode |-> "realtime", currentPlaying |-> TRUE],
                   "realtime"),
    TRUE)

(***************************************************************************)
(* The components on the time store.  ui is their state: reverse and       *)
(* lastSelectedMode of Controls, viewYear and viewMonth of Calendar, and   *)
(* kicked, whether App's timeout has run.  mode, playing, speed and        *)
(* interval of Controls, and selectedYear, selectedMonth and selectedDay   *)
(* of Calendar, are what their subscribers last stored: the store's value  *)
(* (its magnitude for speed and interval; the UTC date of currentTime).    *)
(* p is the pair of st and ui a handler works on.                          *)
(***************************************************************************)
\* the subscribers of Controls and Calendar, for the stores the time store
\* changed between before and after
notified(u, before, after) ==
  LET OnTime(v) ==
        IF after.currentTime # before.currentTime
        THEN [v EXCEPT !.viewYear = civil(after.currentTime.day)[1],
                       !.viewMonth = civil(after.currentTime.day)[2] - 1]
        ELSE v
      OnInterval(v) ==
        OnTime(IF after.snapInterval # before.snapInterval
               THEN [v EXCEPT !.reverse = after.snapInterval < 0] ELSE v)
      OnSpeed(v) ==
        OnInterval(IF after.playbackSpeed # before.playbackSpeed
                   THEN [v EXCEPT !.reverse = after.playbackSpeed < 0] ELSE v)
      OnMode(v) ==
        OnSpeed(IF after.playbackMode # before.playbackMode
                   /\ after.playbackMode \in {"smooth", "snap"}
                THEN [v EXCEPT !.lastSelectedMode = after.playbackMode] ELSE v)
  IN  OnMode(u)

\* a store's set or update, and the subscribers it runs
stored(p, st) == [st |-> st, ui |-> notified(p.ui, p.st, st)]

\* the components after mounting: each subscriber has run once
mounted(st) ==
  [reverse |-> st.snapInterval < 0, lastSelectedMode |-> "smooth", kicked |-> FALSE,
   viewYear |-> civil(st.currentTime.day)[1],
   viewMonth |-> civil(st.currentTime.day)[2] - 1]

\* reverse ? -v : v
directed(reverse, v) == IF reverse THEN -v ELSE v

\* playbackSpeed.set(reverse ? -speed : speed) or
\* snapInterval.set(reverse ? -interval : interval)
setRate(p, mode) ==
  IF mode = "smooth"
  THEN stored(p, setPlaybackSpeed(p.st, directed(p.ui.reverse, Abs(p.st.playbackSpeed))))
  ELSE stored(p, setSnapInterval(p.st, directed(p.ui.reverse, Abs(p.st.snapInterval))))

\* ensureNonRealtime that leaves realtime on
ensureNonRealtime_never(p) == p

ensureNonRealtime(p) ==
  IF p.st.playbackMode = "realtime"
  THEN setRate(stored(p, setPlaybackMode(p.st, p.ui.lastSelectedMode)),
               p.ui.lastSelectedMode)
  ELSE p

togglePlay(p) ==
  LET Toggle(q) == stored(q, setIsPlaying(q.st, ~q.st.isPlaying))
  IN  Toggle(ensureNonRealtime(p))

\* the body of rewind and of fastForward after ensureNonRealtime: back is
\* the direction asked for
turn(p, back) ==
  LET Rate(q) ==
        IF q.st.playbackMode = "smooth"
        THEN stored(q, setPlaybackSpeed(q.st, directed(back, Abs(q.st.playbackSpeed))))
        ELSE IF q.st.playbackMode = "snap"
        THEN stored(q, setSnapInterval(q.st, directed(back, Abs(q.st.snapInterval))))
        ELSE q
      Play(q) == stored(q, setIsPlaying(q.st, TRUE))
  IN  Play(IF p.ui.reverse # back THEN Rate([p EXCEPT !.ui.reverse = back]) ELSE p)

rewind(p) == turn(ensureNonRealtime(p), TRUE)

fastForward(p) == turn(ensureNonRealtime(p), FALSE)

\* Controls' setMode(newMode)
setMode(p, newMode) ==
  LET Play(q) == stored(q, setIsPlaying(q.st, TRUE))
  IN  Play(setRate(stored(p, setPlaybackMode(p.st, newMode)), newMode))

selectSpeed(p, s) == stored(p, setPlaybackSpeed(p.st, directed(p.ui.reverse, s)))

selectInterval(p, d) == stored(p, setSnapInterval(p.st, directed(p.ui.reverse, d)))

\* App's timeout, 100 ms after the textures have loaded
kick(p) ==
  LET Play(q) == [stored(q, setIsPlaying(q.st, TRUE)) EXCEPT !.ui.kicked = TRUE]
      Speed(q) == Play(stored(q, setPlaybackSpeed(q.st, 1)))
  IN  Speed(stored(p, setPlaybackMode(p.st, "smooth")))

\* new Date(Date.UTC(year, month + 1, 0)).getUTCDate(), month from 0
daysInMonth(year, month) ==
  IF month = 11 THEN civil(DateUTC(year + 1, 1, 1) - 1)[3]
  ELSE civil(DateUTC(year, month + 2, 1) - 1)[3]

prevMonth(u) ==
  IF u.viewMonth = 0 THEN [u EXCEPT !.viewMonth = 11, !.viewYear = @ - 1]
  ELSE [u EXCEPT !.viewMonth = @ - 1]

nextMonth(u) ==
  IF u.viewMonth = 11 THEN [u EXCEPT !.viewMonth = 0, !.viewYear = @ + 1]
  ELSE [u EXCEPT !.viewMonth = @ + 1]

prevYear(u) == [u EXCEPT !.viewYear = @ - 1]

nextYear(u) == [u EXCEPT !.viewYear = @ + 1]

\* the UTC time of day, in minutes, of new Date(year, month, day): midnight
\* of the browser's time zone, offset minutes behind UTC (getTimezoneOffset)
localMidnight(offset) == offset % 1440

\* selectDay(day): hours and mins are the UTC hour and minute of local
\* midnight of the selected date
selectDay(p, day, offset, clock) ==
  stored(p, setTime(p.st,
                    [day |-> DateUTC(p.ui.viewYear, p.ui.viewMonth + 1, day),
                     ms |-> (localMidnight(offset) \div 60) * 3600000
                            + (localMidnight(offset) % 60) * 60000],
                    clock))

\* Earth's real axial tilt
REAL_AXIAL_TILT == 23440000

(***************************************************************************)
(* The settings store.  ss is the store's state: value, the value of each  *)
(* writable store under the key of Settings it is saved as (currentThemeId *)
(* under themeId, userLocation under location); cameraLatitude; and the    *)
(* browser's localStorage: item, the document saved under STORAGE_KEY, or  *)
(* Null, and available, FALSE when getItem and setItem throw.  Latitudes   *)
(* and longitudes count hundredths of a degree.                            *)
(***************************************************************************)
MAX_RECENT_LOCATIONS == 3

\* the number -0
NegZero == -(2 ^ 20)

\* a === b for numbers
StrictEquals(a, b) ==
  (IF a = NegZero THEN 0 ELSE a) = (IF b = NegZero THEN 0 ELSE b)

defaults ==
  [themeId |-> "charcoal", axialTilt |-> REAL_AXIAL_TILT, hardTerminator |-> FALSE,
   showMinorGrid |-> FALSE, showMajorGrid |-> TRUE, showEquatorTropics |-> FALSE,
   showEquatorTropicsLabels |-> FALSE, showArcticCircles |-> FALSE,
   showArcticCirclesLabels |-> FALSE, showContinentLabels |-> TRUE,
   showOceanLabels |-> FALSE, showSubsolarPoint |-> TRUE, showNightLights |-> TRUE,
   showSunInfo |-> TRUE, useLocalTime |-> TRUE, showGlobe |-> TRUE,
   showProjection |-> TRUE, showOrrery |-> FALSE,
   location |-> [name |-> "", lat |-> 0, lon |-> 0], recentLocations |-> <<>>]

\* JSON.stringify of a number: -0 is written 0
jsonNumber(x) == IF x = NegZero THEN 0 ELSE x

jsonLocation(l) ==
  [name |-> l.name, lat |-> jsonNumber(l.lat), lon |-> jsonNumber(l.lon)]

\* JSON.stringify(s), as the document JSON.parse reads back from the text
stringify(s) ==
  [k \in DOMAIN s |->
     CASE k = "location" -> jsonLocation(s[k])
       [] k = "recentLocations" ->
            [i \in 1..Len(s[k]) |-> jsonLocation(s[k][i])]
       [] k = "axialTilt" -> jsonNumber(s[k])
       [] OTHER -> s[k]]

\* the old viewMode, turned into showGlobe, showProjection and showOrrery
migrated(parsed) ==
  IF "viewMode" \in DOMAIN parsed /\ "showGlobe" \notin DOMAIN parsed
  THEN [k \in (DOMAIN parsed \ {"viewMode"})
               \cup {"showGlobe", "showProjection", "showOrrery"} |->
          CASE k = "showGlobe" -> parsed.viewMode \in {"globe", "both"}
            [] k = "showProjection" -> parsed.viewMode \in {"projection", "both"}
            [] k = "showOrrery" -> FALSE
            [] OTHER -> parsed[k]]
  ELSE parsed

\* { ...defaults, ...parsed }
spread(parsed) ==
  [k \in DOMAIN defaults \cup DOMAIN parsed |->
     IF k \in DOMAIN parsed THEN parsed[k] ELSE defaults[k]]

loadSettings(ss) ==
  IF ss.available /\ ss.item # Null THEN spread(migrated(ss.item)) ELSE defaults

saveSettings(ss, s) ==
  IF ss.available THEN [ss EXCEPT !.item = stringify(s)] ELSE ss

\* a subscriber that starts from the defaults in place of what is saved
persist_fromDefaults(ss, key, v) ==
  saveSettings(ss, [defaults EXCEPT ![key] = v])

\* s = loadSettings(); s[key] = v; saveSettings(s)
persist(ss, key, v) == saveSettings(ss, [loadSettings(ss) EXCEPT ![key] = v])

\* the labels of lines that are hidden
LabelsOf(key) ==
  CASE key = "showEquatorTropics" -> "showEquatorTropicsLabels"
    [] key = "showArcticCircles" -> "showArcticCirclesLabels"

\* filtered.unshift(v) of the entries of recent not at v's lat and lon
unshifted(recent, v) ==
  <<v>> \o SelectSeq(recent, LAMBDA r : ~(StrictEquals(r.lat, v.lat)
                                          /\ StrictEquals(r.lon, v.lon)))

\* the list that keeps an entry at v's lat and lon
recentWith_noFilter(recent, v) ==
  SubSeq(<<v>> \o recent, 1, Min(Len(recent) + 1, MAX_RECENT_LOCATIONS))

\* filtered.slice(0, MAX_RECENT_LOCATIONS)
recentWith(recent, v) ==
  SubSeq(unshifted(recent, v), 1, Min(Len(unshifted(recent, v)), MAX_RECENT_LOCATIONS))

\* userLocation.subscribe; recentLocations and cameraLatitude have no
\* subscriber that keeps state of the store
onUserLocation(ss, v, s) ==
  [saveSettings(ss, [s EXCEPT !.location = v,
                              !.recentLocations = recentWith(s.recentLocations, v)])
     EXCEPT !.value.recentLocations = recentWith(s.recentLocations, v),
            !.cameraLatitude = v.lat]

\* the subscribers without the rule that labels cannot show without lines
subscriber_noCascade(ss, key, v, live) ==
  IF key = "location" THEN onUserLocation(ss, v, loadSettings(ss))
  ELSE persist(ss, key, v)

\* the subscriber of the store saved as key, called with v; live: the stores
\* this one sets have their subscribers (after the module has loaded)
RECURSIVE subscriber(_, _, _, _)

\* store.set(v) of a boolean, number or string store
setStore(ss, key, v, live) ==
  IF ss.value[key] = v THEN ss
  ELSE IF live THEN subscriber([ss EXCEPT !.value[key] = v], key, v, live)
  ELSE [ss EXCEPT !.value[key] = v]

subscriber(ss, key, v, live) ==
  CASE key = "location" -> onUserLocation(ss, v, loadSettings(ss))
    [] key \in {"showEquatorTropics", "showArcticCircles"} ->
         IF ~v THEN setStore(persist(ss, key, v), LabelsOf(key), FALSE, live)
         ELSE persist(ss, key, v)
    [] OTHER -> persist(ss, key, v)

\* userLocation.set(v): a store of objects runs its subscribers on every set
setUserLocation(ss, v) ==
  subscriber([ss EXCEPT !.value.location = v], "location", v, TRUE)

\* the subscribe calls of the module, in their order; each runs its callback
\* once with the value the store holds then
SUBSCRIPTIONS ==
  << "axialTilt", "hardTerminator", "showMinorGrid", "showMajorGrid",
     "showEquatorTropics", "showEquatorTropicsLabels", "showArcticCircles",
     "showArcticCirclesLabels", "showContinentLabels", "showOceanLabels",
     "showSubsolarPoint", "showNightLights", "showSunInfo", "useLocalTime",
     "showGlobe", "showProjection", "showOrrery", "themeId", "location" >>

RECURSIVE subscribeFrom(_, _)
subscribeFrom(ss, i) ==
  IF i > Len(SUBSCRIPTIONS) THEN ss
  ELSE subscribeFrom(subscriber(ss, SUBSCRIPTIONS[i], ss.value[SUBSCRIPTIONS[i]], FALSE),
                     i + 1)

\* the stores, each holding initial's value under its key
storesOf(ss, initial) ==
  [ss EXCEPT !.value = [k \in DOMAIN defaults |-> initial[k]],
             !.cameraLatitude = initial.location.lat]

\* the module on load over a localStorage holding item
loadSettingsStore(item, available) ==
  subscribeFrom(storesOf([value |-> defaults, cameraLatitude |-> 0,
                          item |-> item, available |-> available],
                         loadSettings([item |-> item, available |-> available])),
                1)

(***************************************************************************)
(* The engine's callers.  A caller holds an instant, an observer and an    *)
(* axial tilt and calls an exported function with them; ret holds what the *)
(* call returned.  The functions take any Date: the model feeds them dates *)
(* inside and outside the ephemeris range and at both ends of what a Date  *)
(* can hold.  An argument that changes starts over: ret is dropped.        *)
(***************************************************************************)
VARIABLES time, loc, tilt, ret, find

\* the time store, the system clock (now) and the number of steps of
\* simulated time taken so far (moves)
VARIABLES now, currentTime, playbackMode, playbackSpeed, snapInterval, isPlaying,
          snapTimerId, timers, currentMode, currentPlaying, moves

\* the settings store, the browser's localStorage and the number of set calls
\* made so far (sets)
VARIABLES stores, cameraLatitude, localStorage, sets

\* the components on the time store
VARIABLE ui

\* the last operation on a store, with the state it found
VARIABLE last

timeVars == <<now, currentTime, playbackMode, playbackSpeed, snapInterval, isPlaying,
              snapTimerId, timers, currentMode, currentPlaying, moves, ui>>
settingsVars == <<stores, cameraLatitude, localStorage, sets>>
app == <<timeVars, settingsVars, last>>

vars == <<time, loc, tilt, ret, find, app>>

\* the state of the time store
timeStore ==
  [currentTime |-> currentTime, playbackMode |-> playbackMode,
   playbackSpeed |-> playbackSpeed, snapInterval |-> snapInterval,
   isPlaying |-> isPlaying, snapTimerId |-> snapTimerId, timers |-> timers,
   currentMode |-> currentMode, currentPlaying |-> currentPlaying]

TimeStoreIs(st) ==
  /\ currentTime = st.currentTime
  /\ playbackMode = st.playbackMode
  /\ playbackSpeed = st.playbackSpeed
  /\ snapInterval = st.snapInterval
  /\ isPlaying = st.isPlaying
  /\ snapTimerId = st.snapTimerId
  /\ timers = st.timers
  /\ currentMode = st.currentMode
  /\ currentPlaying = st.currentPlaying

\* the state of the settings store
settingsStore ==
  [value |-> stores, cameraLatitude |-> cameraLatitude,
   item |-> localStorage.item, available |-> localStorage.available]

SettingsIs(ss) ==
  /\ stores = ss.value
  /\ cameraLatitude = ss.cameraLatitude
  /\ localStorage = [item |-> ss.item, available |-> ss.available]

\* the system clock when the page loads: 12:00 UTC of 2024-10-04
START == [day |-> 20000, ms |-> DAYMS \div 2]

\* 2024-06-21, 2024-03-20, 2024-12-21, 1850-03-01, 1700-01-01, 2300-07-04,
\* the last and the first day a Date can hold, two days before the last,
\* 2024-09-22
DAYS == << 19895, 19802, 20078, -43770, -98615, 120714, MaxDay, -MaxDay,
           MaxDay - 2, 19988 >>
NumDays == 9
TIMES == {0, DAYMS \div 2, DAYMS - 1}
\* 67.394450 and 65.729763: where, on 2024-12-21 and on 2024-06-21, cosHA is
\* exactly 1 and exactly -1
LATS == {0, 40 * UD, 75 * UD, -75 * UD, 90 * UD, -90 * UD, 67394450, 65729763}
LONS == {0, -74 * UD, 180 * UD}
TILTS == {REAL_AXIAL_TILT, 10 * UD}

None == [fn |-> "none"]
Idle == [pc |-> "idle"]

\* the date argument: any valid Date
AnyTime ==
  \E k \in 1..NumDays, ms \in TIMES :
    /\ Valid(NewDate(DAYS[k], ms))
    /\ time' = NewDate(DAYS[k], ms)
    /\ ret' = None
    /\ UNCHANGED <<loc, tilt, find, app>>

\* the date argument: 00:00, 12:00 or the last ms of a day of the Gregorian
\* calendar between 1800 and 2199; a day past the end of its month is a day of
\* the next month, as Date.UTC has it
CALENDAR_YEARS == {1800, 1899, 1900, 1970, 2000, 2024, 2100, 2199}
CALENDAR_DAYS == {1, 28, 29, 30, 31}
AnyCalendarDate ==
  \E y \in CALENDAR_YEARS, m \in 1..12, d \in CALENDAR_DAYS, ms \in TIMES :
    /\ time' = NewDate(DateUTC(y, m, d), ms)
    /\ ret' = None
    /\ UNCHANGED <<loc, tilt, find, app>>

\* latDeg and lonDeg
AnyLocation ==
  \E lat \in LATS, lon \in LONS :
    /\ loc' = [lat |-> lat, lon |-> lon]
    /\ ret' = None
    /\ UNCHANGED <<time, tilt, find, app>>

\* the axial tilt a caller passes: the slider's value
AnyTilt ==
  \E t \in TILTS :
    /\ tilt' = t
    /\ ret' = None
    /\ UNCHANGED <<time, loc, find, app>>

Returns(fn, value) ==
  /\ ret = None
  /\ ret' = [fn |-> fn, value |-> value]
  /\ UNCHANGED <<time, loc, tilt, find, app>>

\* Orrery.render: solarPosition(time, tilt); the function takes the date only
Render == Returns("solarPosition", solarPosition(time))

CallJulianDay == Returns("julianDay", julianDay(time))

CallGmst ==
  Returns("greenwichMeanSiderealTime", greenwichMeanSiderealTime(julianDay(time)))

CallSunDirectionVector == Returns("sunDirectionVector", sunDirectionVector(time))

CallFormatDateUTC == Returns("formatDateUTC", formatDateUTC(time))

\* the rounding left in sinElev at a pole
Noise == IF Abs(loc.lat) = 90 * UD THEN {-ONE, 0, ONE} ELSE {0}

\* Sundial's frame
CallSunElevationAzimuth ==
  \E noise \in Noise :
    Returns("sunElevationAzimuth", sunElevationAzimuth(time, loc.lat, loc.lon, noise))

CallSunriseSunset == Returns("sunriseSunset", sunriseSunset(time, loc.lat, loc.lon))

\* SunInfo: computeSunData(time, loc.lat, loc.lon, tilt)
CallComputeSunData ==
  \E noise \in Noise :
    Returns("computeSunData", computeSunData(time, loc.lat, loc.lon, noise))

(***************************************************************************)
(* findEquinoxOrSolstice, one action for each turn of its loop.  lo and hi *)
(* are offsets from three days before center, <<ms, f>> with f counting    *)
(* 1 / F14 ms: 25 halvings of six days stay exact.  (The double rounds    *)
(* the last of them at about 1e-3 ms.)                                     *)
(***************************************************************************)
YEARS == << 2024, 1800, 2199, 1900, 2100, 1969, 2000 >>
NumYears == 6
TARGETS == {0, 90 * UD, 180 * UD, 270 * UD}
THREE_DAYS_MS == 3 * DAYMS
F14 == 2 ^ 14

\* the lookup that always misses
approx_fallbackOnly(targetLongitude) == <<3, 20>>

\* approx[targetLongitude] ?? [2, 20], the month counted from 1
approx(targetLongitude) ==
  CASE targetLongitude = 90 * UD -> <<6, 21>>
    [] targetLongitude = 180 * UD -> <<9, 22>>
    [] targetLongitude = 270 * UD -> <<12, 21>>
    [] OTHER -> <<3, 20>>

\* (lo + hi) / 2
Mid(lo, hi) ==
  << (lo[1] + hi[1]) \div 2, (((lo[1] + hi[1]) % 2) * F14 + lo[2] + hi[2]) \div 2 >>

\* new Date(t) for t at the offset o from 12:00 of the epoch day base
DateAt(base, o) ==
  IF base + (DAYMS \div 2 + o[1]) \div DAYMS < 0 /\ o[2] > 0
  THEN NewDate(base, DAYMS \div 2 + o[1] + 1)
  ELSE NewDate(base, DAYMS \div 2 + o[1])

StartFind ==
  \E k \in 1..NumYears, targetLongitude \in TARGETS :
    /\ find.pc # "loop"
    /\ find' = [pc |-> "loop", year |-> YEARS[k], targetLongitude |-> targetLongitude,
                base |-> DateUTC(YEARS[k], approx(targetLongitude)[1],
                                 approx(targetLongitude)[2]) - 3,
                lo |-> <<0, 0>>, hi |-> <<2 * THREE_DAYS_MS, 0>>, i |-> 0]
    /\ ret' = None
    /\ UNCHANGED <<time, loc, tilt, app>>

\* the loop body that moves hi where the difference is negative
BisectStep_flipped ==
  /\ find.pc = "loop"
  /\ find.i < 25
  /\ LET Narrow(mid, lambda) ==
           find' = IF ~IsNaN(lambda)
                      /\ angleDiff(normalizeDeg(lambda), find.targetLongitude) < 0
                   THEN [find EXCEPT !.hi = mid, !.i = @ + 1]
                   ELSE [find EXCEPT !.lo = mid, !.i = @ + 1]
         At(mid) ==
           Narrow(mid, solarPosition(DateAt(find.base, mid)).apparentLongitude)
     IN  At(Mid(find.lo, find.hi))
  /\ UNCHANGED <<time, loc, tilt, ret, app>>

BisectStep ==
  /\ find.pc = "loop"
  /\ find.i < 25
  /\ LET Narrow(mid, lambda) ==
           find' = IF ~IsNaN(lambda)
                      /\ angleDiff(normalizeDeg(lambda), find.targetLongitude) < 0
                   THEN [find EXCEPT !.lo = mid, !.i = @ + 1]
                   ELSE [find EXCEPT !.hi = mid, !.i = @ + 1]
         At(mid) ==
           Narrow(mid, solarPosition(DateAt(find.base, mid)).apparentLongitude)
     IN  At(Mid(find.lo, find.hi))
  /\ UNCHANGED <<time, loc, tilt, ret, app>>

FinishFind ==
  /\ find.pc = "loop"
  /\ find.i = 25
  /\ find' = [find EXCEPT !.pc = "done"]
  /\ ret' = [fn |-> "findEquinoxOrSolstice",
             value |-> DateAt(find.base, Mid(find.lo, find.hi))]
  /\ UNCHANGED <<time, loc, tilt, app>>

(***************************************************************************)
(* The time store at work: the system clock advances, the animation loop   *)
(* calls tick once a frame, the runtime fires the live intervals, and the  *)
(* controls, the calendar and the presets call the store.                  *)
(***************************************************************************)
MaxClock == 1
MaxMoves == 1

\* the clock moves on by a second or by a day
CLOCK_STEPS == {1000, DAYMS}
\* frames 16.667 ms and 250 ms apart, in millionths of a second
GAPS == {16667, 250000}
SPEEDS == {s \in SMOOTH_SPEEDS : s \in {-1, 1, 5000}}
INTERVALS == {k \in SNAP_INTERVALS : Abs(k) = 1}
MODES == {"realtime", "smooth", "snap"}
\* 1700-01-01 12:00, 2300-07-04 12:00, 1961-10-15 00:00
DATES == { [day |-> -98615, ms |-> DAYMS \div 2], [day |-> 120714, ms |-> DAYMS \div 2],
           [day |-> -3000, ms |-> 0] }

TimeStoreVarsBecome(st) ==
  /\ currentTime' = st.currentTime
  /\ playbackMode' = st.playbackMode
  /\ playbackSpeed' = st.playbackSpeed
  /\ snapInterval' = st.snapInterval
  /\ isPlaying' = st.isPlaying
  /\ snapTimerId' = st.snapTimerId
  /\ timers' = st.timers
  /\ currentMode' = st.currentMode
  /\ currentPlaying' = st.currentPlaying

\* the store changes and the components' subscribers run
TimeStoreBecomes(st) ==
  /\ TimeStoreVarsBecome(st)
  /\ ui' = notified(ui, timeStore, st)

\* a call of the time store that takes no step of simulated time
TimeStoreCall(name, st) ==
  /\ TimeStoreBecomes(st)
  /\ last' = [name |-> name]
  /\ UNCHANGED <<time, loc, tilt, ret, find, now, moves, settingsVars>>

ClockAdvances ==
  \E d \in CLOCK_STEPS :
    /\ (now.day - START.day) + (now.ms - START.ms) \div 1000 < MaxClock
    /\ now' = NewDate(now.day, now.ms + d)
    /\ UNCHANGED <<time, loc, tilt, ret, find, currentTime, playbackMode,
                   playbackSpeed, snapInterval, isPlaying, snapTimerId, timers,
                   currentMode, currentPlaying, moves, ui, settingsVars, last>>

\* advanceTime, gap after the frame before
AdvanceTime ==
  \E gap \in GAPS :
    /\ playbackMode = "smooth" /\ isPlaying => moves < MaxMoves
    /\ TimeStoreBecomes(tick(timeStore, frameDelta(gap), now))
    /\ moves' = IF playbackMode = "smooth" /\ isPlaying THEN moves + 1 ELSE moves
    /\ last' = [name |-> "tick", clock |-> now, before |-> timeStore, gap |-> gap,
                deltaSec |-> frameDelta(gap)]
    /\ UNCHANGED <<time, loc, tilt, ret, find, now, settingsVars>>

\* a live interval fires
SnapTimerFires ==
  \E id \in timers :
    /\ isPlaying => moves < MaxMoves
    /\ TimeStoreBecomes(snapCallback(timeStore, now))
    /\ moves' = IF isPlaying THEN moves + 1 ELSE moves
    /\ last' = [name |-> "snapTimer", clock |-> now, before |-> timeStore]
    /\ UNCHANGED <<time, loc, tilt, ret, find, now, settingsVars>>

\* setTime, as jumpTo of the presets calls it
SetTime ==
  \E date \in DATES :
    /\ TimeStoreBecomes(setTime(timeStore, date, now))
    /\ last' = [name |-> "setTime", date |-> date, clock |-> now,
                before |-> [playbackMode |-> playbackMode, isPlaying |-> isPlaying,
                            snapInterval |-> snapInterval, timers |-> timers]]
    /\ UNCHANGED <<time, loc, tilt, ret, find, now, moves, settingsVars>>

ResetToRealtime == TimeStoreCall("resetToRealtime", resetToRealtime(timeStore, now))

SyncToSystemClock ==
  TimeStoreCall("syncToSystemClock", syncToSystemClock(timeStore, now))

SetPlaybackMode ==
  \E mode \in MODES :
    TimeStoreCall("playbackMode.set", setPlaybackMode(timeStore, mode))

SetIsPlaying ==
  \E playing \in BOOLEAN :
    TimeStoreCall("isPlaying.set", setIsPlaying(timeStore, playing))

SetPlaybackSpeed ==
  \E speed \in SPEEDS :
    TimeStoreCall("playbackSpeed.set", setPlaybackSpeed(timeStore, speed))

SetSnapInterval ==
  \E days \in INTERVALS :
    TimeStoreCall("snapInterval.set", setSnapInterval(timeStore, days))

(***************************************************************************)
(* The components at work: the transport buttons, the mode and rate        *)
(* buttons, App's timeout, and the calendar's buttons and days.            *)
(***************************************************************************)
MaxView == 1

\* the time zones of the browser: UTC, India (UTC+5:30), New York (UTC-5)
OFFSETS == {0, -330, 300}
GRID_DAYS == {1, 28, 31}

\* the store and the components a handler finds
mountedApp == [st |-> timeStore, ui |-> ui]

\* a handler of a component has run
ComponentCall(op, p) ==
  /\ TimeStoreVarsBecome(p.st)
  /\ ui' = p.ui
  /\ last' = [op EXCEPT !.before = [currentTime |-> currentTime,
                                     playbackMode |-> playbackMode,
                                     playbackSpeed |-> playbackSpeed,
                                     snapInterval |-> snapInterval,
                                     isPlaying |-> isPlaying, ui |-> ui]]
  /\ UNCHANGED <<time, loc, tilt, ret, find, now, moves, settingsVars>>

TogglePlay == ComponentCall([name |-> "togglePlay", before |-> 0], togglePlay(mountedApp))

Rewind == ComponentCall([name |-> "rewind", before |-> 0], rewind(mountedApp))

FastForward ==
  ComponentCall([name |-> "fastForward", before |-> 0], fastForward(mountedApp))

\* the Smooth and Snap buttons
SetMode ==
  \E newMode \in {"smooth", "snap"} :
    ComponentCall([name |-> "setMode", before |-> 0], setMode(mountedApp, newMode))

\* the speed buttons, shown while lastSelectedMode is smooth
SelectSpeed ==
  \E s \in {v \in SPEEDS : v > 0} :
    /\ ui.lastSelectedMode = "smooth"
    /\ ComponentCall([name |-> "selectSpeed", before |-> 0], selectSpeed(mountedApp, s))

\* the interval buttons, shown while lastSelectedMode is snap
SelectInterval ==
  \E d \in {v \in INTERVALS : v > 0} :
    /\ ui.lastSelectedMode = "snap"
    /\ ComponentCall([name |-> "selectInterval", before |-> 0],
                     selectInterval(mountedApp, d))

Kick ==
  /\ ~ui.kicked
  /\ ComponentCall([name |-> "kick", before |-> 0], kick(mountedApp))

\* the calendar's arrows, within MaxView years of the year the page loaded in
ViewCall(u) ==
  /\ Abs(u.viewYear - civil(START.day)[1]) <= MaxView
  /\ ui' = u
  /\ last' = [name |-> "view"]
  /\ UNCHANGED <<time, loc, tilt, ret, find, now, currentTime, playbackMode,
                 playbackSpeed, snapInterval, isPlaying, snapTimerId, timers,
                 currentMode, currentPlaying, moves, settingsVars>>

PrevMonth == ViewCall(prevMonth(ui))

NextMonth == ViewCall(nextMonth(ui))

PrevYear == ViewCall(prevYear(ui))

NextYear == ViewCall(nextYear(ui))

\* a click on a day of the grid
SelectDay ==
  \E day \in GRID_DAYS, offset \in OFFSETS :
    /\ day <= daysInMonth(ui.viewYear, ui.viewMonth)
    /\ ComponentCall([name |-> "selectDay", day |-> day, offset |-> offset,
                      clock |-> now, before |-> 0],
                     selectDay(mountedApp, day, offset, now))

(***************************************************************************)
(* The settings store at work: the page loads over what localStorage       *)
(* holds, the panels set the stores, and the page is loaded again.         *)
(***************************************************************************)
MaxSets == 2

THEME_IDS == {"charcoal", "midnight", "parchment"}
PLAIN_KEYS == DOMAIN defaults \ {"location", "recentLocations"}

\* Paris from the search box; a click on the map just south of the equator;
\* the same point typed in; Sydney from a click; Paris under another name
LOCATIONS ==
  { [name |-> "Paris, France", lat |-> 4885, lon |-> 235],
    [name |-> "", lat |-> NegZero, lon |-> 235],
    [name |-> "Null Island", lat |-> 0, lon |-> 235],
    [name |-> "", lat |-> -3387, lon |-> 15121],
    [name |-> "Paris", lat |-> 4885, lon |-> 235] }

\* what an earlier visit left in localStorage: nothing; the document of the
\* settings store before viewMode was split; a document of this store; a
\* document of two keys, labels on and their lines not saved
STORED ==
  { Null,
    [axialTilt |-> 10 * UD, hardTerminator |-> FALSE, showMinorGrid |-> TRUE,
     showMajorGrid |-> TRUE, showEquatorTropics |-> TRUE,
     showEquatorTropicsLabels |-> TRUE, showArcticCircles |-> TRUE,
     showArcticCirclesLabels |-> TRUE, showContinentLabels |-> TRUE,
     showOceanLabels |-> TRUE, showSubsolarPoint |-> TRUE, showNightLights |-> TRUE,
     showSunInfo |-> TRUE, useLocalTime |-> FALSE, viewMode |-> "globe",
     location |-> [name |-> "", lat |-> -3387, lon |-> 15121],
     recentLocations |-> << [name |-> "", lat |-> -3387, lon |-> 15121],
                            [name |-> "Paris, France", lat |-> 4885, lon |-> 235] >>],
    stringify([defaults EXCEPT
                 !.showEquatorTropics = TRUE, !.showEquatorTropicsLabels = TRUE,
                 !.location = [name |-> "Paris, France", lat |-> 4885, lon |-> 235],
                 !.recentLocations =
                    << [name |-> "Paris, France", lat |-> 4885, lon |-> 235],
                       [name |-> "Null Island", lat |-> 0, lon |-> 235],
                       [name |-> "", lat |-> -3387, lon |-> 15121] >>]),
    [showArcticCirclesLabels |-> TRUE, showOceanLabels |-> TRUE] }

ValuesOf(key) ==
  CASE key = "axialTilt" -> TILTS
    [] key = "themeId" -> THEME_IDS
    [] OTHER -> BOOLEAN

SettingsBecomes(ss) ==
  /\ stores' = ss.value
  /\ cameraLatitude' = ss.cameraLatitude
  /\ localStorage' = [item |-> ss.item, available |-> ss.available]

\* a set call on a store of the settings
SettingsCall(call, ss) ==
  /\ sets < MaxSets
  /\ SettingsBecomes(ss)
  /\ sets' = sets + 1
  /\ last' = [call EXCEPT !.before = stores]
  /\ UNCHANGED <<time, loc, tilt, ret, find, timeVars>>

\* the page loads where localStorage holds item
LoadedOver(item, available) ==
  /\ time = [day |-> DAYS[1], ms |-> DAYMS \div 2]
  /\ loc = [lat |-> 0, lon |-> 0]
  /\ tilt = REAL_AXIAL_TILT
  /\ ret = None
  /\ find = Idle
  /\ now = START
  /\ TimeStoreIs(loadTimeStore(START))
  /\ ui = mounted(loadTimeStore(START))
  /\ moves = 0
  /\ SettingsIs(loadSettingsStore(item, available))
  /\ sets = 0
  /\ last = [name |-> "load"]

Init == LoadedOver(Null, TRUE)

InitSettings ==
  \/ \E item \in STORED : LoadedOver(item, TRUE)
  \/ LoadedOver(Null, FALSE)

\* the checkbox of key takes clicks: a Labels checkbox is disabled while its
\* lines are hidden
checkboxEnabled(value, key) ==
  /\ key = "showEquatorTropicsLabels" => value.showEquatorTropics
  /\ key = "showArcticCirclesLabels" => value.showArcticCircles

\* axialTilt.set, hardTerminator.set, showMinorGrid.set, ..., currentThemeId.set
SetStore ==
  \E key \in {k \in PLAIN_KEYS : checkboxEnabled(stores, k)} :
    \E v \in ValuesOf(key) :
      SettingsCall([name |-> "set", key |-> key, v |-> v, before |-> 0],
                   setStore(settingsStore, key, v, TRUE))

SetUserLocation ==
  \E v \in LOCATIONS :
    SettingsCall([name |-> "userLocation.set", v |-> v, before |-> 0],
                 setUserLocation(settingsStore, v))

\* selectRecent: userLocation.set({ ...loc }) for an entry of the list
SelectRecent ==
  \E i \in 1..Len(stores.recentLocations) :
    SettingsCall([name |-> "userLocation.set", v |-> stores.recentLocations[i],
                  before |-> 0],
                 setUserLocation(settingsStore, stores.recentLocations[i]))

\* the page is loaded again
Reload ==
  /\ SettingsBecomes(loadSettingsStore(localStorage.item, localStorage.available))
  /\ last' = [name |-> "reload", before |-> stores]
  /\ UNCHANGED <<time, loc, tilt, ret, find, timeVars, sets>>

Next ==
  \/ AnyTime
  \/ AnyLocation
  \/ AnyTilt
  \/ Render
  \/ CallJulianDay
  \/ CallGmst
  \/ CallSunDirectionVector
  \/ CallFormatDateUTC
  \/ CallSunElevationAzimuth
  \/ CallSunriseSunset
  \/ CallComputeSunData

Spec == Init /\ [][Next]_vars

\* the preset buttons: the four events of a year
NextFind ==
  \/ StartFind
  \/ BisectStep
  \/ FinishFind

SpecFind == Init /\ [][NextFind]_vars

\* the for loop runs to its end and the function returns: weak fairness of
\* BisectStep, whose ENABLED is its guard, and of FinishFind
BisectEnabled == find.pc = "loop" /\ find.i < 25
SpecFindFair ==
  /\ SpecFind
  /\ []<>(~BisectEnabled) \/ []<><<BisectStep>>_vars
  /\ WF_vars(FinishFind)

\* julianDay and greenwichMeanSiderealTime over the calendar
NextJulian ==
  \/ AnyCalendarDate
  \/ CallJulianDay
  \/ CallGmst

SpecJulian == Init /\ [][NextJulian]_vars

NextTime ==
  \/ ClockAdvances
  \/ AdvanceTime
  \/ SnapTimerFires
  \/ SetTime
  \/ ResetToRealtime
  \/ SyncToSystemClock
  \/ SetPlaybackMode
  \/ SetIsPlaying
  \/ SetPlaybackSpeed
  \/ SetSnapInterval

SpecTime == Init /\ [][NextTime]_vars

NextSettings ==
  \/ SetStore
  \/ SetUserLocation
  \/ SelectRecent
  \/ Reload

SpecSettings == InitSettings /\ [][NextSettings]_vars

\* the transport and the presets: every caller of the time store but the
\* calendar, at one reading of the system clock
NextControls ==
  \/ AdvanceTime
  \/ SnapTimerFires
  \/ SetTime
  \/ ResetToRealtime
  \/ Kick
  \/ TogglePlay
  \/ Rewind
  \/ FastForward
  \/ SetMode
  \/ SelectSpeed
  \/ SelectInterval

SpecControls == Init /\ [][NextControls]_vars

\* the calendar and the Now button
NextCalendar ==
  \/ ResetToRealtime
  \/ PrevMonth
  \/ NextMonth
  \/ PrevYear
  \/ NextYear
  \/ SelectDay

SpecCalendar == Init /\ [][NextCalendar]_vars

(***************************************************************************)
(* Properties of the engine's results.                                     *)
(***************************************************************************)
\* date - 00:00 of the caller's day, in ms
Ms(date) == (date.day - time.day) * DAYMS + date.ms

\* the geometry behind the last sunriseSunset call
Geometry == crossing(time, loc.lat, loc.lon)

\* C1: the declination solarPosition returns never exceeds, by more than 1e-6
\* rad (57 microdegrees), the axial tilt its caller passed.
C1_DeclinationWithinTilt ==
  ret.fn = "solarPosition" => Abs(ret.value.declination) <= tilt + 57

\* C2: sunriseSunset returns for an instant what it returns for 00:00 UTC of
\* the same calendar day: the time of day of the query does not matter.
C2_SameDaySameResult ==
  ret.fn = "sunriseSunset" =>
    ret.value = sunriseSunset([day |-> time.day, ms |-> 0], loc.lat, loc.lon)

C2_Witness ==
  /\ ret.fn = "sunriseSunset"
  /\ time.ms = DAYMS - 1
  /\ Valid(ret.value.sunrise)
  /\ Valid(ret.value.sunset)

\* C3: away from the poles, cos(H) < -1 gives null sunrise and sunset and a
\* day of 24 hours, cos(H) > 1 gives null sunrise and sunset and a day of 0
\* hours, and solarNoon is not null in either case.
C3_PolarDayAndNight ==
  (ret.fn = "sunriseSunset" /\ Valid(noonOf(time)) /\ ~atPole(Geometry.denominator)) =>
    /\ Geometry.cosHA < -ONE =>
         /\ ret.value.sunrise = Null
         /\ ret.value.sunset = Null
         /\ ret.value.dayLength = 24 * UD
         /\ ret.value.solarNoon # Null
    /\ Geometry.cosHA > ONE =>
         /\ ret.value.sunrise = Null
         /\ ret.value.sunset = Null
         /\ ret.value.dayLength = 0
         /\ ret.value.solarNoon # Null

C3_Witness ==
  /\ ret.fn = "sunriseSunset"
  /\ Abs(loc.lat) = 75 * UD
  /\ Geometry.cosHA < -ONE
  /\ Valid(ret.value.solarNoon)

HasEvents ==
  /\ ret.fn = "sunriseSunset"
  /\ Valid(ret.value.sunrise)
  /\ Valid(ret.value.sunset)
  /\ Valid(ret.value.solarNoon)

\* twice the unrounded solar noon, in ms after 00:00
TwiceSolarNoon ==
  (Geometry.solarNoonMinutes \div 25) * 3 + ((Geometry.solarNoonMinutes % 25) * 3) \div 25

\* sunset - sunrise is dayLength hours, to a few ms
DayLengthIsInterval ==
  Abs(5 * (Ms(ret.value.sunset) - Ms(ret.value.sunrise)) - 18 * ret.value.dayLength) <= 30

\* C5 as stated: the returned solarNoon is the midpoint of sunrise and sunset
\* to the millisecond, and dayLength is the interval between them.
C5_MidpointIsReturnedNoon ==
  HasEvents =>
    /\ Abs(Ms(ret.value.sunrise) + Ms(ret.value.sunset) - 2 * Ms(ret.value.solarNoon)) <= 2
    /\ DayLengthIsInterval

\* C5: sunrise and sunset are symmetric about the unrounded solar noon, the
\* returned solarNoon is within 30 s of their midpoint (it is rounded to the
\* minute), and dayLength is the interval between them.
C5_SymmetricAboutUnroundedNoon ==
  HasEvents =>
    /\ Abs(Ms(ret.value.sunrise) + Ms(ret.value.sunset) - TwiceSolarNoon) <= 3
    /\ Abs(Ms(ret.value.sunrise) + Ms(ret.value.sunset) - 2 * Ms(ret.value.solarNoon))
         <= 60002
    /\ Ms(ret.value.solarNoon) % 60000 = 0
    /\ DayLengthIsInterval

C5_Witness ==
  /\ HasEvents
  /\ loc.lat = 40 * UD
  /\ Abs(Ms(ret.value.sunrise) + Ms(ret.value.sunset) - 2 * Ms(ret.value.solarNoon)) > 2

\* C6: the status of computeSunData is polar day when dayLength >= 24, polar
\* night when dayLength <= 0, otherwise day (morning before azimuth 180,
\* afternoon from it) when elevation > 0, otherwise the twilight band of the
\* elevation (0 to -6, -6 to -12, -12 to -18) or night at -18 and below.
C6_StatusByBands ==
  ret.fn = "computeSunData" =>
    LET v == ret.value
        polarDay == ~IsNaN(v.dayLength) /\ v.dayLength >= 24 * UD
        polarNight == ~IsNaN(v.dayLength) /\ v.dayLength <= 0
        between == ~polarDay /\ ~polarNight
    IN  /\ polarDay => v.status = "Polar day (24h sun)"
        /\ polarNight => v.status = "Polar night (no sun)"
        /\ (between /\ v.elevation > 0 /\ v.azimuth < HALF) => v.status = "Day (morning)"
        /\ (between /\ v.elevation > 0 /\ v.azimuth >= HALF) => v.status = "Day (afternoon)"
        /\ (between /\ -6 * UD < v.elevation /\ v.elevation <= 0)
             => v.status = "Civil twilight"
        /\ (between /\ -12 * UD < v.elevation /\ v.elevation <= -6 * UD)
             => v.status = "Nautical twilight"
        /\ (between /\ -18 * UD < v.elevation /\ v.elevation <= -12 * UD)
             => v.status = "Astronomical twilight"
        /\ (between /\ v.elevation <= -18 * UD) => v.status = "Night"

C6_Witness ==
  /\ ret.fn = "computeSunData"
  /\ ret.value.dayLength <= 0
  /\ ~IsNaN(ret.value.dayLength)
  /\ ret.value.elevation <= -18 * UD
  /\ ret.value.status = "Polar night (no sun)"

\* the event the finder was asked for: its declination at tilt 23.44
EventDeclination ==
  CASE find.targetLongitude = 90 * UD -> REAL_AXIAL_TILT
    [] find.targetLongitude = 270 * UD -> -REAL_AXIAL_TILT
    [] OTHER -> 0

\* C7: the instant findEquinoxOrSolstice returns has a declination within 0.1
\* degrees of +23.44 (target 90), -23.44 (target 270) or 0 (targets 0, 180).
C7_FinderDeclination ==
  ret.fn = "findEquinoxOrSolstice" =>
    Abs(solarPosition(ret.value).declination - EventDeclination) <= 100000

C7_Witness ==
  /\ ret.fn = "findEquinoxOrSolstice"
  /\ find.pc = "done"
  /\ find.year = 1800
  /\ find.targetLongitude = 270 * UD
  /\ Valid(ret.value)

\* the instants whose Julian Days are 2451545 - 73050 and 2451545 + 73050:
\* 12:00 UTC of 1800-01-01 and of 2200-01-02
RangeStart == [day |-> -62093, ms |-> DAYMS \div 2]
RangeEnd == [day |-> 84007, ms |-> DAYMS \div 2]

Later(a, b) == a.day > b.day \/ (a.day = b.day /\ a.ms > b.ms)

\* diff < 0 at the offset o of the running search
Negative(o) ==
  LET Below(lambda) ==
        ~IsNaN(lambda) /\ angleDiff(normalizeDeg(lambda), find.targetLongitude) < 0
  IN  Below(solarPosition(DateAt(find.base, o)).apparentLongitude)

\* offsets <<ms, f>>: a <= b, and b - a
OffsetLe(a, b) == a[1] < b[1] \/ (a[1] = b[1] /\ a[2] <= b[2])
OffsetSub(b, a) ==
  IF b[2] >= a[2] THEN << b[1] - a[1], b[2] - a[2] >>
  ELSE << b[1] - a[1] - 1, b[2] + F14 - a[2] >>

\* six days halved i times: 518400000 ms is 2^11 * 253125
WindowHalved(i) ==
  IF i <= 11 THEN << (2 * THREE_DAYS_MS) \div 2 ^ i, 0 >>
  ELSE << (253125 * 2 ^ (25 - i)) \div F14, (253125 * 2 ^ (25 - i)) % F14 >>

\* the difference is negative at the window's start and not at its end
InitiallyBracketed == Negative(<<0, 0>>) /\ ~Negative(<<2 * THREE_DAYS_MS, 0>>)

ValidBracket ==
  find.pc \in {"loop", "done"} =>
    /\ find.i \in 0..25
    /\ find.pc = "done" => find.i = 25
    /\ OffsetLe(<<0, 0>>, find.lo)
    /\ OffsetLe(find.lo, find.hi)
    /\ OffsetLe(find.hi, <<2 * THREE_DAYS_MS, 0>>)
    /\ OffsetSub(find.hi, find.lo) = WindowHalved(find.i)
    /\ InitiallyBracketed =>
         /\ Negative(find.lo)
         /\ ~Negative(find.hi)
         /\ find.pc = "done" =>
              /\ ret.value = DateAt(find.base, Mid(find.lo, find.hi))
              /\ ~Later(DateAt(find.base, find.lo), ret.value)
              /\ ~Later(ret.value, DateAt(find.base, find.hi))
              /\ OffsetLe(OffsetSub(find.hi, find.lo), <<60000, 0>>)

\* C26: the bisection runs 25 iterations and returns; at every iteration
\* lo <= hi, [lo, hi] lies inside the window of six days and is the window
\* halved i times; a difference negative at the window's start and
\* non-negative at its end stays so at lo and at hi, and the returned instant
\* lies between them, less than a minute apart.
C26_ValidBracket ==
  /\ []ValidBracket
  /\ [][BisectStep => find'.i = find.i + 1]_vars
  /\ (find.pc = "loop") ~> (find.pc = "done")

C26_Witness ==
  /\ find.pc = "done"
  /\ find.i = 25
  /\ InitiallyBracketed
  /\ find.year = 2024
  /\ find.targetLongitude = 90 * UD
  /\ OffsetSub(find.hi, find.lo) = <<15, 7365>>
  /\ Negative(find.lo)
  /\ ~Negative(find.hi)

\* every search of the model starts with the sign change in its window
C26_AlwaysBracketed == find.pc \in {"loop", "done"} => InitiallyBracketed

PositionDefined(pos) ==
  /\ ~IsNaN(pos.declination)
  /\ ~IsNaN(pos.rightAscension)
  /\ ~IsNaN(pos.apparentLongitude)
  /\ ~IsNaN(pos.obliquity)

\* C8: T lies in [-2, 2]; solarPosition returns for an instant after the range
\* what it returns for the end of the range, for an instant before the range
\* what it returns for its start, and a position of numbers in both cases.
C8_ClampedToRange ==
  ret.fn = "solarPosition" =>
    LET T == solarT(time)
    IN  /\ T.c >= -2
        /\ T.c < 2 \/ (T.c = 2 /\ T.f = 0 /\ T.e = 0)
        /\ Later(time, RangeEnd) => ret.value = solarPosition(RangeEnd)
        /\ Later(RangeStart, time) => ret.value = solarPosition(RangeStart)
        /\ PositionDefined(ret.value)

C8_Witness ==
  /\ ret.fn = "solarPosition"
  /\ Later(RangeStart, time)
  /\ time.day > -MaxDay
  /\ ret.value = solarPosition(RangeStart)
  /\ solarT(time).c = -2

NullOrValid(date) == date = Null \/ Valid(date)

\* no number of the result is NaN and no Date of it is invalid
ResultDefined ==
  /\ ret.fn = "solarPosition" => PositionDefined(ret.value)
  /\ ret.fn = "greenwichMeanSiderealTime" => ~IsNaN(ret.value)
  /\ ret.fn = "sunDirectionVector" => \A i \in 1..3 : ~IsNaN(ret.value[i])
  /\ ret.fn \in {"sunElevationAzimuth", "computeSunData"} =>
       ~IsNaN(ret.value.elevation) /\ ~IsNaN(ret.value.azimuth)
  /\ ret.fn \in {"sunriseSunset", "computeSunData"} =>
       /\ ~IsNaN(ret.value.dayLength)
       /\ Valid(ret.value.solarNoon)
       /\ NullOrValid(ret.value.sunrise)
       /\ NullOrValid(ret.value.sunset)

\* the instant is two days or more from both ends of what a Date can hold
TwoDaysInside == time.day <= MaxDay - 2 /\ time.day >= -MaxDay + 2

polarStatus(s) == s \in {"Polar day (24h sun)", "Polar night (no sun)"}

\* C28: sunriseSunset returns sunrise and sunset both null or both non-null,
\* and null exactly when dayLength is 24 or 0; computeSunData reports a polar
\* status exactly when sunrise and sunset are null.
C28_NullExactlyWhenPolar ==
  /\ ret.fn \in {"sunriseSunset", "computeSunData"} =>
       /\ (ret.value.sunrise = Null) <=> (ret.value.sunset = Null)
       /\ (ret.value.sunrise = Null) <=> (ret.value.dayLength \in {0, 24 * UD})
  /\ ret.fn = "computeSunData" =>
       (polarStatus(ret.value.status) <=> ret.value.sunrise = Null)

\* C28, the part that holds: sunrise and sunset are null together, and when
\* they are null dayLength is 24 or 0 and the status is a polar one.
C28_NullImpliesPolar ==
  ret.fn \in {"sunriseSunset", "computeSunData"} =>
    /\ (ret.value.sunrise = Null) <=> (ret.value.sunset = Null)
    /\ ret.value.sunrise = Null => ret.value.dayLength \in {0, 24 * UD}
    /\ (ret.fn = "computeSunData" /\ ret.value.sunrise = Null)
         => polarStatus(ret.value.status)

\* the sun touches the horizon at noon: cosHA is exactly 1, sunrise and sunset
\* are the same instant, and the status is polar night
C28_TouchesHorizon ==
  /\ ret.fn = "computeSunData"
  /\ Valid(noonOf(time))
  /\ ~atPole(Geometry.denominator)
  /\ Geometry.cosHA = ONE
  /\ ret.value.sunrise # Null
  /\ ret.value.sunrise = ret.value.sunset
  /\ ret.value.dayLength = 0
  /\ ret.value.status = "Polar night (no sun)"

\* Meeus' calendar date of the Julian Day jd (Astronomical Algorithms, ch. 7)
\* as the epoch day and the ms of the day: Z = jd.d is the whole part of
\* JD + 0.5 and jd.ms its fraction
InverseMeeus(jd) ==
  LET Month(E) == IF E < 14 THEN E - 1 ELSE E - 13
      Year(C, E) == IF Month(E) > 2 THEN C - 4716 ELSE C - 4715
      Fields(B, C, D, E) ==
        << Year(C, E), Month(E), B - D - (306001 * E) \div 10000 >>
      FromD(B, C, D) == Fields(B, C, D, ((B - D) * 10000) \div 306001)
      FromC(B, C) == FromD(B, C, (1461 * C) \div 4)
      FromB(B) == FromC(B, (20 * B - 2442) \div 7305)
      FromAlpha(Z, alpha) == FromB(Z + 1 + alpha - alpha \div 4 + 1524)
      Civil(Z) == IF Z < 2299161 THEN FromB(Z + 1524)
                  ELSE FromAlpha(Z, (4 * Z - 7468865) \div 146097)
      Date(c) == [day |-> DateUTC(c[1], c[2], c[3]), ms |-> jd.ms, civil |-> c]
  IN  Date(Civil(jd.d))

\* C11: the calendar date and time of day Meeus' inverse formula gives for
\* julianDay(instant) are those of the instant, to within 1 second, for an
\* instant between 1800 and 2199.
C11_JulianDayRoundTrip ==
  ret.fn = "julianDay" /\ ~Later(RangeStart, time) /\ ~Later(time, RangeEnd) =>
    /\ InverseMeeus(ret.value).civil = civil(time.day)
    /\ Abs((InverseMeeus(ret.value).day - time.day) * DAYMS
            + InverseMeeus(ret.value).ms - time.ms) <= 1000

\* the round trip of 23:59:59.999 of a 28 February, where julianDay counts
\* the month as the 14th of the year before
C11_Witness ==
  /\ ret.fn = "julianDay"
  /\ civil(time.day) = <<1900, 2, 28>>
  /\ time.ms = DAYMS - 1
  /\ ret.value.d = 2415079
  /\ InverseMeeus(ret.value).civil = <<1900, 2, 28>>

\* the Julian Day jd less 2451545.0, as <<days, ms>>
SinceEpoch(jd) == << jd.d - J2000, jd.ms - DAYMS \div 2 >>

\* C27: julianDay(2000-01-01T12:00:00Z) = 2451545.0, and julianDay(b) -
\* julianDay(a) is b - a in days: julianDay(instant) - 2451545.0 is the time
\* from 2000-01-01T12:00:00Z to the instant, and the same time a day later
\* gives 1 more, for instants between 1800 and 2199.
C27_JulianDayCountsDays ==
  ret.fn = "julianDay" /\ ~Later(RangeStart, time) /\ ~Later(time, RangeEnd) =>
    /\ SinceEpoch(ret.value)
         = << time.day - DateUTC(2000, 1, 1), time.ms - DAYMS \div 2 >>
    /\ time = [day |-> DateUTC(2000, 1, 1), ms |-> DAYMS \div 2]
         => ret.value = [d |-> 2451545, ms |-> DAYMS \div 2]
    /\ SinceEpoch(julianDay(NewDate(time.day + 1, time.ms)))
         = << SinceEpoch(ret.value)[1] + 1, SinceEpoch(ret.value)[2] >>

\* the step from 28 February to 1 March of 2100, a century year that is no
\* leap year
C27_Witness ==
  /\ ret.fn = "julianDay"
  /\ civil(time.day) = <<2100, 2, 28>>
  /\ time.ms = 0
  /\ ret.value = [d |-> 2488128, ms |-> 0]
  /\ civil(time.day + 1) = <<2100, 3, 1>>
  /\ julianDay(NewDate(time.day + 1, time.ms)).d = 2488129

\* C12: greenwichMeanSiderealTime returns r with 0 <= r < 360 for every
\* Julian Day, also before J2000, where the polynomial is negative.
C12_GmstNormalized ==
  ret.fn = "greenwichMeanSiderealTime" => ret.value >= 0 /\ ret.value < FULL

\* a Julian Day before J2000 whose polynomial, less whole turns, is negative
C12_Witness ==
  /\ ret.fn = "greenwichMeanSiderealTime"
  /\ sinceJ2000(julianDay(time))[1] < 0
  /\ 280460618 + wholeDays(sinceJ2000(julianDay(time))[1])
       + MulShift(DayFraction(sinceJ2000(julianDay(time))[2]), 360985647, 3) < -UD
  /\ ret.value >= 0
  /\ ret.value < FULL

(***************************************************************************)
(* Properties of the time store.                                           *)
(***************************************************************************)
\* a - b in ms, for Dates days apart at most
Elapsed(a, b) == (a.day - b.day) * DAYMS + a.ms - b.ms

\* the last operation was a step of simulated time: a tick in smooth mode or
\* a firing of the snap timer, with isPlaying true
Advanced ==
  /\ last.name \in {"tick", "snapTimer"}
  /\ last.before.isPlaying
  /\ last.name = "tick" => last.before.playbackMode = "smooth"

\* C13: currentTime lies within 200 years of the system clock in every state:
\* now - 200 years <= currentTime <= now + 200 years.
C13_WithinBoundsOfNow ==
  /\ ~Before(currentTime, timeBounds(now).min)
  /\ ~Before(timeBounds(now).max, currentTime)

\* C14: a step of simulated time that leaves currentTime at the minimum or
\* the maximum bound leaves isPlaying false.
C14_PausedAtBound ==
  Advanced /\ currentTime \in {timeBounds(last.clock).min, timeBounds(last.clock).max}
    => ~isPlaying

\* C15: the store starts in realtime mode, and a tick in realtime mode sets
\* currentTime to the system time and changes nothing else, whatever
\* isPlaying and deltaSec are.
C15_RealtimeTracksClock ==
  /\ last.name = "load" => playbackMode = "realtime"
  /\ last.name = "tick" /\ last.before.playbackMode = "realtime" =>
       timeStore = [last.before EXCEPT !.currentTime = last.clock]

\* a tick in realtime mode while paused, the clock having moved on
C15_Witness ==
  /\ last.name = "tick"
  /\ last.before.playbackMode = "realtime"
  /\ ~last.before.isPlaying
  /\ last.deltaSec = 100000
  /\ currentTime = last.clock
  /\ currentTime # last.before.currentTime
  /\ ~isPlaying

\* C16: a frame in smooth mode with isPlaying true that ends away from the
\* bounds moves currentTime by playbackSpeed times the wall-clock time since
\* the frame before (thousandths of a ms on both sides).
C16_SpeedTimesRealTime ==
  /\ Advanced
  /\ last.name = "tick"
  /\ isPlaying
  /\ Before(timeBounds(last.clock).min, currentTime)
  /\ Before(currentTime, timeBounds(last.clock).max)
  => Elapsed(currentTime, last.before.currentTime) * 1000 = playbackSpeed * last.gap

\* C20: after every operation of the store a snap timer is scheduled if and
\* only if playbackMode is snap and isPlaying is true; it is the one
\* snapTimerId names, and there is never a second one.
C20_OneTimerIffSnapPlaying ==
  /\ timers # {} <=> playbackMode = "snap" /\ isPlaying
  /\ Cardinality(timers) <= 1
  /\ timers = IF snapTimerId = NoTimer THEN {} ELSE {snapTimerId}

\* a firing that pauses playback at a bound, the timer cleared with it
C20_Witness ==
  /\ last.name = "snapTimer"
  /\ last.before.isPlaying
  /\ last.before.timers # {}
  /\ ~isPlaying
  /\ currentTime = timeBounds(last.clock).max
  /\ playbackMode = "snap"
  /\ timers = {}

\* C22: tick changes currentTime only in realtime mode or in smooth mode with
\* isPlaying true; in snap mode and in any paused state that is not realtime
\* it leaves every store, and the timer, as they were.
C22_TickOnlyRealtimeOrSmoothPlaying ==
  /\ last.name = "tick"
  /\ last.before.playbackMode # "realtime"
  /\ ~(last.before.playbackMode = "smooth" /\ last.before.isPlaying)
  => timeStore = last.before

\* a frame in snap mode with isPlaying true, the timer scheduled
C22_Witness ==
  /\ last.name = "tick"
  /\ last.before.playbackMode = "snap"
  /\ last.before.isPlaying
  /\ last.before.timers # {}
  /\ last.gap = 250000
  /\ currentTime = last.before.currentTime
  /\ isPlaying

C29_StoreInsideEngineRange ==
  clampedJd(sinceJ2000(julianDay(currentTime))) = sinceJ2000(julianDay(currentTime))

(***************************************************************************)
(* Properties of the settings store.                                       *)
(***************************************************************************)
SameLocation(a, b) ==
  a.name = b.name /\ StrictEquals(a.lat, b.lat) /\ StrictEquals(a.lon, b.lon)

\* a and b are the same value of the key: ===, field by field
SameValue(key, a, b) ==
  CASE key = "location" -> SameLocation(a, b)
    [] key = "recentLocations" ->
         Len(a) = Len(b) /\ \A i \in 1..Len(a) : SameLocation(a[i], b[i])
    [] OTHER -> a = b

\* labels are shown only with their lines, as the settings panel has it
LabelsWithLines(value) ==
  /\ value.showEquatorTropicsLabels => value.showEquatorTropics
  /\ value.showArcticCirclesLabels => value.showArcticCircles

\* C17: with localStorage available, loadSettings() returns for every key the
\* value its store holds, after every set and its cascade; and the page
\* loaded again holds the values it held before, where no labels were shown
\* without their lines.
C17_SavedIsHeld ==
  localStorage.available =>
    /\ \A key \in DOMAIN defaults :
         SameValue(key, loadSettings(settingsStore)[key], stores[key])
    /\ last.name = "reload" /\ LabelsWithLines(last.before) =>
         \A key \in DOMAIN defaults : SameValue(key, stores[key], last.before[key])

\* hiding the tropics hides their labels, and both are saved
C17_Witness ==
  /\ localStorage.available
  /\ last.name = "set"
  /\ last.key = "showEquatorTropics"
  /\ last.before.showEquatorTropics
  /\ last.before.showEquatorTropicsLabels
  /\ ~stores.showEquatorTropicsLabels
  /\ ~loadSettings(settingsStore).showEquatorTropicsLabels
  /\ ~loadSettings(settingsStore).showEquatorTropics
  /\ loadSettings(settingsStore).showGlobe
  /\ ~loadSettings(settingsStore).showProjection

\* r keeps no entry at l's lat and lon
Without(r, l) ==
  SelectSeq(r, LAMBDA e : ~(StrictEquals(e.lat, l.lat) /\ StrictEquals(e.lon, l.lon)))

C19_SameInMemory ==
  ~localStorage.available /\ last.name = "userLocation.set" =>
    /\ stores.location = last.v
    /\ Len(stores.recentLocations) =
         Min(3, 1 + Len(Without(last.before.recentLocations, last.v)))
    /\ \A i \in 2..Len(stores.recentLocations) :
         SameLocation(stores.recentLocations[i],
                      Without(last.before.recentLocations, last.v)[i - 1])

\* C24: labels show only with their lines, in the stores and in the saved
\* settings, in every state: showEquatorTropicsLabels implies
\* showEquatorTropics and showArcticCirclesLabels implies showArcticCircles.
C24_LabelsOnlyWithLines ==
  /\ stores.showEquatorTropicsLabels => stores.showEquatorTropics
  /\ stores.showArcticCirclesLabels => stores.showArcticCircles
  /\ loadSettings(settingsStore).showEquatorTropicsLabels
       => loadSettings(settingsStore).showEquatorTropics
  /\ loadSettings(settingsStore).showArcticCirclesLabels
       => loadSettings(settingsStore).showArcticCircles

\* the arctic circles hidden while their labels show: the labels go with them
C24_Witness ==
  /\ last.name = "set"
  /\ last.key = "showArcticCircles"
  /\ last.v = FALSE
  /\ last.before.showArcticCircles
  /\ last.before.showArcticCirclesLabels
  /\ ~stores.showArcticCircles
  /\ ~stores.showArcticCirclesLabels
  /\ localStorage.available
  /\ ~localStorage.item.showArcticCirclesLabels
(***************************************************************************)
(* Properties of the components.                                           *)
(***************************************************************************)
\* the rate of the mode the store is in
activeRate == IF playbackMode = "smooth" THEN playbackSpeed ELSE snapInterval

\* the transport button left playback running outside realtime, the
\* magnitudes of both rates as they were
TransportPlays ==
  /\ isPlaying
  /\ playbackMode # "realtime"
  /\ Abs(playbackSpeed) = Abs(last.before.playbackSpeed)
  /\ Abs(snapInterval) = Abs(last.before.snapInterval)

\* C21: after rewind the rate of the active mode is negative, after
\* fastForward it is positive; either way isPlaying is true, playbackMode is
\* not realtime and the magnitude of the rate is unchanged.
C21_TransportSetsDirection ==
  /\ last.name = "rewind" => (activeRate < 0 /\ TransportPlays)
  /\ last.name = "fastForward" => (activeRate > 0 /\ TransportPlays)

\* C21, the part that holds: the buttons start playback outside realtime and
\* keep the magnitudes, and they set the direction when reverse agreed with
\* the sign of the active rate (in realtime: always)
C21_TransportPlays ==
  last.name \in {"rewind", "fastForward"} =>
    /\ TransportPlays
    /\ (\/ last.before.playbackMode = "realtime"
        \/ /\ last.before.playbackMode = "smooth"
           /\ last.before.ui.reverse = (last.before.playbackSpeed < 0)
        \/ /\ last.before.playbackMode = "snap"
           /\ last.before.ui.reverse = (last.before.snapInterval < 0))
         => (activeRate < 0) = (last.name = "rewind")

\* rewind pressed while reverse is true and the speed is positive: playback
\* runs forward
C21_RewindPlaysForward ==
  /\ last.name = "rewind"
  /\ last.before.ui.reverse
  /\ last.before.playbackMode = "smooth"
  /\ last.before.playbackSpeed = 1
  /\ last.before.snapInterval = -1
  /\ playbackMode = "smooth"
  /\ playbackSpeed = 1
  /\ isPlaying

\* Controls' showPause()
showPause(st) == st.playbackMode = "realtime" \/ st.isPlaying

minuteOfDay(date) == date.ms \div 60000

\* C25: selectDay(day) keeps the UTC hour and minute of currentTime and makes
\* its UTC date (viewYear, viewMonth, day).
C25_SelectDayKeepsTimeOfDay ==
  last.name = "selectDay" =>
    /\ minuteOfDay(currentTime) = minuteOfDay(last.before.currentTime)
    /\ civil(currentTime.day)
         = <<last.before.ui.viewYear, last.before.ui.viewMonth + 1, last.day>>

\* C25, what selectDay does: the date becomes (viewYear, viewMonth, day) and
\* the time of day the UTC hour and minute of midnight in the browser's zone
C25_SelectDaySetsLocalMidnight ==
  last.name = "selectDay" =>
    /\ minuteOfDay(currentTime) = localMidnight(last.offset)
    /\ currentTime.ms % 60000 = 0
    /\ civil(currentTime.day)
         = <<last.before.ui.viewYear, last.before.ui.viewMonth + 1, last.day>>

\* a day picked at 12:00 UTC in a browser on UTC: the time of day is 00:00
C25_NoonBecomesMidnight ==
  /\ last.name = "selectDay"
  /\ last.offset = 0
  /\ last.before.currentTime = START
  /\ currentTime.ms = 0

====
